---- MODULE Spec2Model ----
(***************************************************************************)
(* A model of the CharacterCard Studio CLI synchronisation engine:         *)
(*   - FileWatcher (services/watcher): the two-flag push gate;             *)
(*   - PullService.saveWorldBookLocal / pullWorldBook (remote -> local);   *)
(*   - SyncService.loadWorldBookFromLocal / pushWorldBook (local -> remote)*)
(* Strings that the code inspects character by character (comments, ids,   *)
(* file stems) are sequences of one-character strings.  A JavaScript       *)
(* null is the empty set {} and a present nullable value v is {v}; an      *)
(* undefined / absent property is a field missing from the record.         *)
(***************************************************************************)
EXTENDS Integers, Sequences, FiniteSets, TLC

VARIABLES
    \* ---- FileWatcher (src/unnamed/part_000:86-166)
    proc,         \* "init" | "watching" | "exited" | "crashed"
    isPushing,    \* FileWatcher.isPushing
    pushQueue,    \* FileWatcher.pushQueue
    inflight,     \* SyncService.push promises started by the watcher, unsettled
    pushCount,    \* history: SyncService.push invocations so far
    evTotal,      \* history: filesystem events delivered so far
    evDuring,     \* history: events delivered since the running push started
    lastStep,     \* history: what the last handler did
    failed,       \* history: some push of the watcher has failed
    \* ---- local store, remote store, pull and push
    remote,       \* the remote collection: [shape, entries]
    index,        \* index.yaml: [exists, entries]
    files,        \* the entries/ subtree: path -> parsed content
    lastOp,       \* history: the last sync operation and its outcome
    prevLocal,    \* history: <<index, files>> before the last operation
    sent,         \* history: {} or {payload} of the replace call of the last op
    consec,       \* history: consecutive pulls of the same remote from empty
    edits,        \* history: number of environment edits so far
    prevRemote,   \* history: the remote collection a sent push replaced
    call,         \* history: the arguments of the last generateEntries
    halted,       \* history: {} or {local store} a pull that was stopped
                  \*   started from
    \* ---- compare, and a push that runs beside it
    flight,       \* {} or {payload}: a replace call sent and not yet answered
    cmp,          \* {} or {worldInfo}: a compare that loaded local and awaits
    diffResult,   \* {} or {DiffResult}: what a compare returned in the last step
    \* ---- characters
    rchar,        \* the remote character: {} or {record}
    lchar,        \* the local character project: [exists, metadata, books,
                  \*   md, alts]
    cfetch,       \* {} or {record}: a pushCharacter that fetched and goes on
    creq          \* history: the remote calls of the last pushCharacter

wvars == <<proc, isPushing, pushQueue, inflight, pushCount, evTotal, evDuring,
           lastStep, failed>>
svars == <<remote, index, files, lastOp, prevLocal, sent, consec,
           edits, prevRemote, call, halted>>
dvars == <<flight, cmp, diffResult>>
cvars == <<rchar, lchar, cfetch, creq>>
ovars == <<dvars, cvars>>
vars == <<wvars, svars, ovars>>

\* ---- bounds of the model
MaxEvents == 6
MaxRemote == 2
MaxEdits == 3

(***************************************************************************)
(* FileWatcher                                                             *)
(***************************************************************************)

\* A watcher's flags, plus what one handler run did: a push invoked or not,
\* and whether the promise of triggerPush ended rejected.
WState(p, q, inv, rej) ==
    [isPushing |-> p, pushQueue |-> q, invoked |-> inv, rejected |-> rej]

\* (mutant) triggerPush without the isPushing gate: every event pushes.
triggerPushNoGate(w) == WState(TRUE, w.pushQueue, 1, FALSE)

\* (mutant) triggerPush that drops an event arriving during a push.
triggerPushNoQueue(w) ==
    IF w.isPushing
    THEN WState(TRUE, w.pushQueue, 0, FALSE)
    ELSE WState(TRUE, w.pushQueue, 1, FALSE)

\* triggerPush up to its await: the gate, then the synchronous start of
\* SyncService.push.
triggerPush(w) ==
    IF w.isPushing
    THEN WState(TRUE, TRUE, 0, FALSE)
    ELSE WState(TRUE, w.pushQueue, 1, FALSE)

\* (mutant) the finally block without the queued re-push.
pushSettledNoRepush(w, ok) == WState(FALSE, FALSE, 0, FALSE)

\* (mutant) no catch block: a failed push rejects triggerPush's promise,
\* which nothing handles.
pushSettledNoCatch(w, ok) ==
    LET afterFinally == [w EXCEPT !.isPushing = FALSE]
    IN  IF w.pushQueue
        THEN [triggerPush([afterFinally EXCEPT !.pushQueue = FALSE])
                 EXCEPT !.rejected = ~ok]
        ELSE WState(FALSE, FALSE, 0, ~ok)

\* (mutant) a finally block that clears isPushing and leaves pushQueue for
\* the next event to find.
pushSettledKeepQueue(w, ok) == WState(FALSE, w.pushQueue, 0, FALSE)

\* (mutant) the queued re-push placed at the end of the try block: it runs
\* after a successful push only.
pushSettledRepushOnSuccess(w, ok) ==
    IF w.pushQueue /\ ok
    THEN triggerPush([w EXCEPT !.isPushing = FALSE, !.pushQueue = FALSE])
    ELSE WState(FALSE, FALSE, 0, FALSE)

\* triggerPush after its await: try/catch swallows the outcome, finally
\* clears isPushing and, if pushQueue is set, clears it and calls triggerPush.
pushSettled(w, ok) ==
    LET afterFinally == [w EXCEPT !.isPushing = FALSE]
    IN  IF w.pushQueue
        THEN triggerPush([afterFinally EXCEPT !.pushQueue = FALSE])
        ELSE WState(FALSE, FALSE, 0, FALSE)

WNow == WState(isPushing, pushQueue, 0, FALSE)

\* FileWatcher.start: chokidar.watch is installed.
start ==
    /\ proc = "init"
    /\ proc' = "watching"
    /\ lastStep' = "start"
    /\ UNCHANGED <<isPushing, pushQueue, inflight, pushCount, evTotal, evDuring,
                   failed>>
    /\ UNCHANGED <<svars, ovars>>

\* watcher.on("all"): one debounced filesystem event.
FsEvent ==
    /\ proc = "watching"
    /\ evTotal < MaxEvents
    /\ LET w == triggerPush(WNow)
       IN  /\ isPushing' = w.isPushing
           /\ pushQueue' = w.pushQueue
           /\ inflight' = inflight + w.invoked
           /\ pushCount' = pushCount + w.invoked
           /\ evDuring' = IF w.invoked = 1 THEN 0 ELSE evDuring + 1
    /\ evTotal' = evTotal + 1
    /\ lastStep' = "event"
    /\ UNCHANGED <<proc, failed, svars, ovars>>

\* The promise of a SyncService.push settles and triggerPush resumes.
PushSettles(ok) ==
    /\ proc = "watching"
    /\ inflight > 0
    /\ LET w == pushSettled(WNow, ok)
       IN  /\ isPushing' = w.isPushing
           /\ pushQueue' = w.pushQueue
           /\ inflight' = inflight - 1 + w.invoked
           /\ pushCount' = pushCount + w.invoked
           /\ evDuring' = 0
           /\ proc' = IF w.rejected THEN "crashed" ELSE proc
    /\ lastStep' = IF ok THEN "settled_ok" ELSE "settled_fail"
    /\ failed' = (failed \/ ~ok)
    /\ UNCHANGED <<evTotal, svars, ovars>>

\* SIGINT: stop() closes the watcher, then process.exit(0).
SigInt ==
    /\ proc = "watching"
    /\ proc' = "exited"
    /\ lastStep' = "sigint"
    /\ UNCHANGED <<isPushing, pushQueue, inflight, pushCount, evTotal, evDuring,
                   failed>>
    /\ UNCHANGED <<svars, ovars>>

WInit ==
    /\ proc = "init"
    /\ isPushing = FALSE
    /\ pushQueue = FALSE
    /\ inflight = 0
    /\ pushCount = 0
    /\ evTotal = 0
    /\ evDuring = 0
    /\ lastStep = "none"
    /\ failed = FALSE

WatcherNext ==
    \/ start
    \/ FsEvent
    \/ \E ok \in BOOLEAN : PushSettles(ok)
    \/ SigInt

(***************************************************************************)
(* Strings, names and paths                                                *)
(***************************************************************************)

Lower == {"a", "b", "c", "d", "e", "f", "g", "h", "i", "j", "k", "l", "m",
          "n", "o", "p", "q", "r", "s", "t", "u", "v", "w", "x", "y", "z"}
Upper == {"A", "B", "C", "D", "E", "F", "G", "H", "I", "J", "K", "L", "M",
          "N", "O", "P", "Q", "R", "S", "T", "U", "V", "W", "X", "Y", "Z"}
DigitChars == <<"0", "1", "2", "3", "4", "5", "6", "7", "8", "9">>

\* The character class [a-z0-9\u4e00-\u9fa5_\-\.] under the i flag (the
\* model's alphabet holds no CJK character).
IsSafeChar(c) ==
    c \in Lower \cup Upper \cup {DigitChars[i] : i \in 1..10} \cup {"_", "-", "."}

\* String(n) / `${n}` for a natural number.
RECURSIVE NumStr(_)
NumStr(n) ==
    IF n < 10 THEN <<DigitChars[n + 1]>>
    ELSE NumStr(n \div 10) \o <<DigitChars[(n % 10) + 1]>>

\* .replace(/[^a-z0-9\u4e00-\u9fa5_\-\.]/gi, '_')
ReplaceUnsafe(s) == [i \in 1..Len(s) |-> IF IsSafeChar(s[i]) THEN s[i] ELSE "_"]

\* .replace(/_{2,}/g, '_')
RECURSIVE CollapseUnderscores(_)
CollapseUnderscores(s) ==
    IF Len(s) <= 1 THEN s
    ELSE IF s[1] = "_" /\ s[2] = "_" THEN CollapseUnderscores(Tail(s))
    ELSE <<s[1]>> \o CollapseUnderscores(Tail(s))

EntryPrefix == <<"e", "n", "t", "r", "y", "_">>

\* entry.comment, "" when undefined (both are falsy where the code tests it).
CommentOf(e) == IF "comment" \in DOMAIN e THEN e.comment ELSE <<>>

\* The file name (id) derived from an entry.
safeName(e) ==
    LET fallback == EntryPrefix \o NumStr(e.uid)
        base == IF CommentOf(e) # <<>> THEN CommentOf(e) ELSE fallback
        s == CollapseUnderscores(ReplaceUnsafe(base))
    IN  IF s = <<>> THEN fallback ELSE s

Ids(idx) == {idx[i].id : i \in 1..Len(idx)}

\* (mutant) a uniqueness loop that also steps over names whose content file
\* is already on disk.
uniqueIdAvoidingFiles(idx, fs, name) ==
    LET taken(n) == n \in Ids(idx) \/ \E p \in DOMAIN fs : p.stem = n
    IN  IF ~taken(name) THEN name
        ELSE LET free == {c \in 1..(Len(idx) + Cardinality(DOMAIN fs) + 1) :
                              ~taken(name \o <<"_">> \o NumStr(c))}
                 c == CHOOSE c \in free : \A d \in free : c <= d
             IN  name \o <<"_">> \o NumStr(c)

\* (mutant) a name whose content file lies directly under entries/ is
\* taken: the entry gets the name with _1 appended.
uniqueIdSparingFiles(idx, fs, name) ==
    LET taken(n) == n \in Ids(idx) \/ [dir |-> "", stem |-> n, ext |-> "yaml"] \in DOMAIN fs
    IN  IF ~taken(name) THEN name
        ELSE LET free == {c \in 1..(Len(idx) + Cardinality(DOMAIN fs) + 1) :
                              ~taken(name \o <<"_">> \o NumStr(c))}
                 c == CHOOSE c \in free : \A d \in free : c <= d
             IN  name \o <<"_">> \o NumStr(c)

\* (mutant) a collision appends _1 and looks no further.
uniqueIdOneSuffix(idx, fs, name) ==
    IF name \notin Ids(idx) THEN name ELSE name \o <<"_", "1">>

\* The `while (indexEntries.some(e => e.id === fileName))` loop: the first of
\* name, name_1, name_2, ... that no index entry written so far carries.  The
\* loop looks at indexEntries only, never at the files fs on disk.
uniqueId(idx, fs, name) ==
    IF name \notin Ids(idx) THEN name
    ELSE LET free == {c \in 1..(Len(idx) + 1) :
                          (name \o <<"_">> \o NumStr(c)) \notin Ids(idx)}
             c == CHOOSE c \in free : \A d \in free : c <= d
         IN  name \o <<"_">> \o NumStr(c)

\* A file of the entries/ subtree: dir is "" for entries/ itself.
Path(dir, stem, ext) == [dir |-> dir, stem |-> stem, ext |-> ext]
TopLevel(fs) == {p \in DOMAIN fs : p.dir = ""}

\* (mutant) findEntryFile without the recursive search.
findEntryFileDirect(fs, id) ==
    IF [dir |-> "", stem |-> id, ext |-> "yaml"] \in DOMAIN fs
    THEN {[dir |-> "", stem |-> id, ext |-> "yaml"]}
    ELSE IF [dir |-> "", stem |-> id, ext |-> "yml"] \in DOMAIN fs
    THEN {[dir |-> "", stem |-> id, ext |-> "yml"]}
    ELSE {}

\* FileUtils.findEntryFile: {} for null, {path} otherwise.  The recursive
\* search returns the first match in directory order; the model's states
\* hold at most one nested file per stem, so the match is unique.
findEntryFile(fs, id) ==
    IF Path("", id, "yaml") \in DOMAIN fs THEN {Path("", id, "yaml")}
    ELSE IF Path("", id, "yml") \in DOMAIN fs THEN {Path("", id, "yml")}
    ELSE LET nested == {p \in DOMAIN fs : p.dir # "" /\ p.stem = id}
         IN  IF nested = {} THEN {} ELSE {CHOOSE p \in nested : TRUE}

\* fs.writeFileSync / fs.unlinkSync on the entries/ subtree.
WriteFile(fs, p, data) == (p :> data) @@ fs
Unlink(fs, gone) == [p \in (DOMAIN fs) \ gone |-> fs[p]]

(***************************************************************************)
(* Schemas (types/schemas) and ValidationUtils.validate                    *)
(***************************************************************************)

DefaultOrder == 100
DefaultProbability == 100
DefaultDepth == 4
DefaultGroupWeight == 100
MinProbability == 0
MaxProbability == 100

\* The .default(...) of every WorldInfoEntrySchema field that has one.
EntryDefaults ==
    [uid |-> 0, key |-> <<>>, keysecondary |-> <<>>, content |-> "",
     constant |-> FALSE, selective |-> TRUE, selectiveLogic |-> 0,
     order |-> DefaultOrder, position |-> 0, disable |-> FALSE,
     excludeRecursion |-> TRUE, preventRecursion |-> TRUE,
     delayUntilRecursion |-> FALSE, probability |-> DefaultProbability,
     useProbability |-> TRUE, depth |-> DefaultDepth, group |-> "",
     groupOverride |-> FALSE, groupWeight |-> DefaultGroupWeight,
     scanDepth |-> {}, caseSensitive |-> {}, matchWholeWords |-> {},
     useGroupScoring |-> {}, automationId |-> "", role |-> {}, sticky |-> {},
     cooldown |-> {}, delay |-> {}]

\* The optional fields without a default.
EntryOptional == {"keys", "secondary_keys", "comment"}

\* (mutant) a schema without the probability range.
SchemaOkNoRange(raw) == TRUE

\* WorldInfoEntrySchema.safeParse(raw).success.  Every field of the model's
\* entries has the type the schema asks for, so what is left to fail is
\* probability: z.number().min(0).max(100).
SchemaOk(raw) ==
    "probability" \in DOMAIN raw =>
        raw.probability >= MinProbability /\ raw.probability <= MaxProbability

\* safeParse(raw).data: unknown keys stripped, defaults filled in.
SchemaData(raw) ==
    [f \in DOMAIN EntryDefaults \cup (EntryOptional \cap DOMAIN raw) |->
        IF f \in DOMAIN raw THEN raw[f] ELSE EntryDefaults[f]]

\* ValidationUtils.validate: {} for null, {data} otherwise.
validate(raw) == IF SchemaOk(raw) THEN {SchemaData(raw)} ELSE {}

(***************************************************************************)
(* PullService.saveWorldBookLocal and pullWorldBook                        *)
(***************************************************************************)

\* Legacy aliases: keys -> key, secondary_keys -> keysecondary.
RepairAliases(raw) ==
    LET k == IF (("key" \notin DOMAIN raw) \/ raw.key = <<>>)
                /\ "keys" \in DOMAIN raw /\ raw.keys # <<>>
             THEN ("key" :> raw.keys) @@ raw ELSE raw
    IN  IF (("keysecondary" \notin DOMAIN k) \/ k.keysecondary = <<>>)
           /\ "secondary_keys" \in DOMAIN k /\ k.secondary_keys # <<>>
        THEN ("keysecondary" :> k.secondary_keys) @@ k ELSE k

\* The first loop: the validated entries, in the order of rawEntries.
RECURSIVE ValidatedEntries(_)
ValidatedEntries(raws) ==
    IF raws = <<>> THEN <<>>
    ELSE LET v == validate(RepairAliases(Head(raws)))
         IN  (IF v = {} THEN <<>> ELSE <<CHOOSE e \in v : TRUE>>)
             \o ValidatedEntries(Tail(raws))

\* The comparator of entriesArray.sort: < 0, 0 or > 0.
CompareEntries(a, b) ==
    IF a.order # b.order THEN a.order - b.order ELSE a.uid - b.uid

\* Array.prototype.sort, which is stable: insertion after every element that
\* does not compare greater.
RECURSIVE SortEntries(_)
InsertSorted(sorted, e) ==
    LET after == {i \in 1..Len(sorted) : CompareEntries(sorted[i], e) <= 0}
        n == IF after = {} THEN 0 ELSE CHOOSE i \in after : \A j \in after : j <= i
    IN  SubSeq(sorted, 1, n) \o <<e>> \o SubSeq(sorted, n + 1, Len(sorted))
SortEntries(s) ==
    IF s = <<>> THEN <<>>
    ELSE InsertSorted(SortEntries(SubSeq(s, 1, Len(s) - 1)), s[Len(s)])

Opt(cond, rec) == IF cond THEN rec ELSE <<>>
NotNull(x) == x # {}
Val(x) == CHOOSE v \in x : TRUE

\* YamlParser.stringifyContent: key and content only.
stringifyContent(c) == [key |-> c.key, content |-> c.content]

\* The content file of an entry.
ContentFileOf(e) ==
    stringifyContent([key |-> e.key, keysecondary |-> <<>>, content |-> e.content])

\* The index entry of an entry: the five fields always written, the comment
\* when it differs from the id, the others when they are not the default.
IndexEntryOf(e, id) ==
    [id |-> id, enabled |-> ~e.disable, constant |-> e.constant,
     position |-> e.position, order |-> e.order, depth |-> e.depth]
    @@ Opt(CommentOf(e) # <<>> /\ CommentOf(e) # id, [comment |-> CommentOf(e)])
    @@ Opt(e.probability # DefaultProbability, [probability |-> e.probability])
    @@ Opt(e.group # "", [group |-> e.group])
    @@ Opt(e.selective = FALSE, [selective |-> FALSE])
    @@ Opt(NotNull(e.role), [role |-> e.role])
    @@ Opt(NotNull(e.sticky) /\ e.sticky # {0}, [sticky |-> e.sticky])
    @@ Opt(NotNull(e.cooldown) /\ e.cooldown # {0}, [cooldown |-> e.cooldown])
    @@ Opt(NotNull(e.delay) /\ e.delay # {0}, [delay |-> e.delay])
    @@ Opt(e.excludeRecursion, [excludeRecursion |-> TRUE])
    @@ Opt(e.preventRecursion, [preventRecursion |-> TRUE])
    @@ Opt(e.delayUntilRecursion, [delayUntilRecursion |-> TRUE])
    @@ Opt(e.matchWholeWords = {TRUE}, [matchWholeWords |-> {TRUE}])
    @@ Opt(e.caseSensitive = {TRUE}, [caseSensitive |-> {TRUE}])
    @@ Opt(e.useGroupScoring = {TRUE}, [useGroupScoring |-> {TRUE}])
    @@ Opt(e.automationId # "", [automationId |-> e.automationId])

\* The second loop: one content file and one index entry per sorted entry.
\* acc is [idx, fs].
RECURSIVE WriteEntries(_, _)
WriteEntries(sorted, acc) ==
    IF sorted = <<>> THEN acc
    ELSE LET e == Head(sorted)
             finalId == uniqueId(acc.idx, acc.fs, safeName(e))
             existing == findEntryFile(acc.fs, finalId)
             target == IF existing # {} THEN Val(existing)
                       ELSE Path("", finalId, "yaml")
         IN  WriteEntries(Tail(sorted),
                 [idx |-> Append(acc.idx, IndexEntryOf(e, finalId)),
                  fs |-> WriteFile(acc.fs, target, {ContentFileOf(e)})])

\* (mutant) no orphan cleanup.
OrphansNone(fs, idx) == {}

\* The files the cleanup unlinks: the *.yaml / *.yml files directly under
\* entries/ that are not in writtenFiles, also after .yml -> .yaml.
Orphans(fs, idx) ==
    LET writtenFiles == {Path("", id, "yaml") : id \in Ids(idx)}
    IN  {p \in TopLevel(fs) :
            /\ p.ext \in {"yaml", "yml"}
            /\ p \notin writtenFiles
            /\ [p EXCEPT !.ext = "yaml"] \notin writtenFiles}

\* fs.writeFileSync(index.yaml, stringifyIndex(indexData)).
writeIndex(idx) == [exists |-> TRUE, entries |-> idx]

\* saveWorldBookLocal: the local store after it ran on worldInfo.
saveWorldBookLocal(worldInfo, local) ==
    LET sorted == SortEntries(ValidatedEntries(worldInfo.entries))
        written == WriteEntries(sorted, [idx |-> <<>>, fs |-> local.files])
    IN  [index |-> writeIndex(written.idx),
         files |-> Unlink(written.fs, Orphans(written.fs, written.idx))]

\* `!worldInfo || !worldInfo.entries`: an empty map or array is truthy.
fetchedIsMissing(worldInfo) == worldInfo.shape = "absent"

(***************************************************************************)
(* SyncService.loadWorldBookFromLocal and pushWorldBook                    *)
(***************************************************************************)

\* indexEntry.f ?? d   and   indexEntry.f || d  for a field that is absent
\* or holds a value of d's kind.
Field(ie, f, d) == IF f \in DOMAIN ie THEN ie[f] ELSE d
\* The same for a nullable field, kept as {} / {v}: v, or d when null/absent.
Nullable(ie, f, d) ==
    IF f \in DOMAIN ie /\ ie[f] # {} THEN Val(ie[f]) ELSE d

\* YamlParser.parseContent of a parsed document.
parseContent(doc) ==
    [key |-> Field(doc, "key", <<>>),
     keysecondary |-> Field(doc, "keysecondary", <<>>),
     content |-> Field(doc, "content", "")]

\* The fullEntry built for index entry number i (0-based) and its content.
FullEntry(ie, i, c) ==
    [uid |-> i,
     key |-> c.key, keysecondary |-> c.keysecondary, content |-> c.content,
     comment |-> IF Field(ie, "comment", <<>>) # <<>> THEN ie.comment ELSE ie.id,
     disable |-> (Field(ie, "enabled", TRUE) = FALSE),
     constant |-> Field(ie, "constant", FALSE),
     selective |-> (Field(ie, "selective", TRUE) # FALSE),
     order |-> Field(ie, "order", DefaultOrder),
     position |-> Field(ie, "position", 0),
     depth |-> Field(ie, "depth", DefaultDepth),
     probability |-> Field(ie, "probability", DefaultProbability),
     group |-> Field(ie, "group", ""),
     role |-> {Nullable(ie, "role", 0)},
     selectiveLogic |-> 0,
     excludeRecursion |-> Field(ie, "excludeRecursion", FALSE),
     preventRecursion |-> Field(ie, "preventRecursion", FALSE),
     delayUntilRecursion |-> Field(ie, "delayUntilRecursion", FALSE),
     useProbability |-> TRUE,
     scanDepth |-> Field(ie, "scanDepth", {}),
     caseSensitive |-> Field(ie, "caseSensitive", {}),
     matchWholeWords |-> Field(ie, "matchWholeWords", {}),
     useGroupScoring |-> {Nullable(ie, "useGroupScoring", FALSE)},
     automationId |-> Field(ie, "automationId", ""),
     sticky |-> Field(ie, "sticky", {}),
     cooldown |-> Field(ie, "cooldown", {}),
     delay |-> Field(ie, "delay", {}),
     groupOverride |-> Field(ie, "groupOverride", FALSE),
     groupWeight |-> Field(ie, "groupWeight", DefaultGroupWeight)]

\* (mutant) a missing content file loads as an empty entry.
LoadOneKeepMissing(ie, i, fs) ==
    IF "id" \notin DOMAIN ie \/ ie.id = <<>> THEN {}
    ELSE LET found == findEntryFile(fs, ie.id)
         IN  IF found = {} THEN validate(FullEntry(ie, i, parseContent(<<>>)))
             ELSE IF fs[Val(found)] = {} THEN {}
             ELSE validate(FullEntry(ie, i, parseContent(Val(fs[Val(found)]))))

\* One turn of the load loop: {} when the index entry is skipped (no id, no
\* content file, unreadable content, failed validation), {entry} otherwise.
LoadOne(ie, i, fs) ==
    IF "id" \notin DOMAIN ie \/ ie.id = <<>> THEN {}
    ELSE LET found == findEntryFile(fs, ie.id)
         IN  IF found = {} THEN {}
             ELSE IF fs[Val(found)] = {} THEN {}
             ELSE validate(FullEntry(ie, i, parseContent(Val(fs[Val(found)]))))

\* (mutant) a load that numbers the entries it keeps 0, 1, 2, ...: the
\* position of a skipped index entry is not counted.
RECURSIVE LoadFromDense(_, _, _)
LoadFromDense(entries, i, fs) ==
    IF i >= Len(entries) THEN <<>>
    ELSE LET before == Cardinality({j \in 0..(i - 1) :
                                      LoadOne(entries[j + 1], j, fs) # {}})
             one == LoadOne(entries[i + 1], before, fs)
         IN  (IF one = {} THEN <<>> ELSE <<Val(one)>>)
             \o LoadFromDense(entries, i + 1, fs)

\* loadWorldBookFromLocal: worldInfo.entries as the values of the record in
\* key order (the keys are String(uid), ascending).
RECURSIVE LoadFrom(_, _, _)
LoadFrom(entries, i, fs) ==
    IF i >= Len(entries) THEN <<>>
    ELSE LET one == LoadOne(entries[i + 1], i, fs)
         IN  (IF one = {} THEN <<>> ELSE <<Val(one)>>) \o LoadFrom(entries, i + 1, fs)

loadWorldBookFromLocal(local) ==
    IF ~local.index.exists THEN [shape |-> "map", entries |-> <<>>]
    ELSE [shape |-> "map", entries |-> LoadFrom(local.index.entries, 0, local.files)]

\* ValidationUtils.validate(WorldInfoSchema, wbData).
WorldInfoOk(wb) == \A k \in 1..Len(wb.entries) : SchemaOk(wb.entries[k])

\* pushWorldBook up to the replace call: "noindex", "invalid" or "send".
pushDecision(local) ==
    IF ~local.index.exists THEN "noindex"
    ELSE IF ~WorldInfoOk(loadWorldBookFromLocal(local)) THEN "invalid"
    ELSE "send"

(***************************************************************************)
(* The sync operations and their environment                               *)
(***************************************************************************)

Local == [index |-> index, files |-> files]
NoCall == [op |-> "none"]
NoProject ==
    [exists |-> FALSE, metadata |-> <<>>, books |-> 0, md |-> <<>>,
     alts |-> <<>>]

\* No compare and no character push is under way.
OInit ==
    /\ flight = {}
    /\ cmp = {}
    /\ diffResult = {}
    /\ rchar = {}
    /\ lchar = NoProject
    /\ cfetch = {}
    /\ creq = <<>>
NoFiles == <<>>
IsEmptyDir(local) == ~local.index.exists /\ DOMAIN local.files = {}

\* ---- inputs
\* <<comment, order, probability, content>> of the entries the remote may
\* gain: one without a comment, one whose comment needs sanitizing, one that
\* sorts first, one whose probability the schema rejects.
Traits == {<<<<>>, DefaultOrder, DefaultProbability, "dry">>,
           <<<<"a", " ", "b">>, DefaultOrder, DefaultProbability, "hot">>,
           <<<<"a", " ", "b">>, 50, DefaultProbability, "wet">>,
           <<<<"a", " ", "b">>, DefaultOrder, 150, "icy">>}
Probabilities == {DefaultProbability, 50, 150}
Shapes == {"absent", "map", "array"}
StrayPaths == {Path("", <<"z">>, "yaml"), Path("", <<"z">>, "yml"),
               Path("sub", <<"z">>, "yaml")}
SomeDoc == [key |-> <<"moon">>, content |-> "cold"]

\* A remote entry as the remote application stores it.
RawEntry(uid, c, o, pr, text) ==
    [uid |-> uid, key |-> <<"sun">>, content |-> text, order |-> o,
     probability |-> pr]
    @@ Opt(c # <<>>, [comment |-> c])

NextUid(entries) ==
    IF entries = <<>> THEN 0
    ELSE 1 + (CHOOSE m \in {entries[k].uid : k \in 1..Len(entries)} :
                 \A k \in 1..Len(entries) : entries[k].uid <= m)

EnvStep(newRemote, newIndex, newFiles) ==
    /\ edits < MaxEdits
    /\ edits' = edits + 1
    /\ remote' = newRemote
    /\ index' = newIndex
    /\ files' = newFiles
    /\ lastOp' = "env"
    /\ prevLocal' = [index |-> newIndex, files |-> newFiles]
    /\ sent' = {}
    /\ consec' = 0
    /\ prevRemote' = {}
    /\ call' = NoCall
    /\ halted' = {}
    /\ diffResult' = {}
    /\ UNCHANGED <<wvars, flight, cmp, cvars>>

\* The remote application gains an entry.
RemoteAdd(t) ==
    /\ remote.shape # "absent"
    /\ Len(remote.entries) < MaxRemote
    /\ EnvStep([remote EXCEPT !.entries =
                   Append(@, RawEntry(NextUid(remote.entries), t[1], t[2], t[3], t[4]))],
               index, files)

\* The remote collection is deleted, or recreated empty as a map or an array.
RemoteReset(shape) ==
    /\ [shape |-> shape, entries |-> <<>>] # remote
    /\ EnvStep([shape |-> shape, entries |-> <<>>], index, files)

\* The user deletes a content file.
UserDeleteFile(p) ==
    /\ p \in DOMAIN files
    /\ EnvStep(remote, index, Unlink(files, {p}))

\* The user leaves a content file that does not parse.
UserCorruptFile(p) ==
    /\ p \in DOMAIN files
    /\ files[p] # {}
    /\ EnvStep(remote, index, WriteFile(files, p, {}))

\* The user creates a content file no index entry names.
UserAddFile(p) ==
    /\ p \notin DOMAIN files
    /\ EnvStep(remote, index, WriteFile(files, p, {SomeDoc}))

\* The user moves a top-level content file into a folder.
UserMoveFile(p) ==
    /\ p \in TopLevel(files)
    /\ Path("sub", p.stem, "yaml") \notin DOMAIN files
    /\ EnvStep(remote, index,
               WriteFile(Unlink(files, {p}), Path("sub", p.stem, "yaml"), files[p]))

\* The user edits the probability of an index entry.
UserSetProbability(i, pr) ==
    /\ index.exists
    /\ i \in 1..Len(index.entries)
    /\ Field(index.entries[i], "probability", DefaultProbability) # pr
    /\ EnvStep(remote,
               [index EXCEPT !.entries[i] = ("probability" :> pr) @@ @],
               files)

\* One run of a sync operation, with its history: the remote a push that got
\* through replaced is kept in prevRemote.
SyncStep(op, newRemote, newLocal, payload, n) ==
    /\ lastOp' = op
    /\ prevRemote' = IF op = "push_ok" THEN {remote} ELSE {}
    /\ call' = NoCall
    /\ halted' = IF op = "pull_ok" /\ lastOp = "pull_stopped" THEN halted ELSE {}
    /\ remote' = newRemote
    /\ index' = newLocal.index
    /\ files' = newLocal.files
    /\ prevLocal' = Local
    /\ sent' = payload
    /\ consec' = n
    /\ diffResult' = {}
    /\ UNCHANGED <<edits, wvars, flight, cmp, cvars>>

\* pullWorldBook; netOk is whether the fetch returned.
pullWorldBook(netOk) ==
    IF ~netOk THEN SyncStep("pull_neterr", remote, Local, {}, 0)
    ELSE IF fetchedIsMissing(remote)
    THEN SyncStep("pull_notfound", remote, Local, {}, 0)
    ELSE SyncStep("pull_ok", remote, saveWorldBookLocal(remote, Local), {},
                  IF IsEmptyDir(Local) THEN 1
                  ELSE IF consec >= 1 /\ lastOp = "pull_ok" THEN 2 ELSE 0)

\* (mutant) the replace call keeps the entries of the remote whose uid the
\* local book does not have.
replaceBodyMerging(wbData, oldRemote) ==
    [wbData EXCEPT !.entries =
        @ \o SelectSeq(oldRemote.entries,
                       LAMBDA r : \A k \in 1..Len(wbData.entries) :
                                     wbData.entries[k].uid # r.uid)]

\* The data of the body of POST /api/worldinfo/edit: the book loaded from
\* the local files, whatever the remote holds.
replaceBody(wbData, oldRemote) == wbData

\* pushWorldBook; netOk is whether the replace call returned 2xx.
pushWorldBook(netOk) ==
    LET d == pushDecision(Local)
        wbData == replaceBody(loadWorldBookFromLocal(Local), remote)
    IN  IF d = "noindex" THEN SyncStep("push_noindex", remote, Local, {}, 0)
        ELSE IF d = "invalid" THEN SyncStep("push_invalid", remote, Local, {}, 0)
        ELSE IF netOk THEN SyncStep("push_ok", wbData, Local, {wbData}, 0)
        ELSE SyncStep("push_neterr", remote, Local, {wbData}, 0)

SInit ==
    /\ remote \in {[shape |-> sh, entries |-> <<>>] : sh \in Shapes}
    /\ index = [exists |-> FALSE, entries |-> <<>>]
    /\ files = NoFiles
    /\ lastOp = "none"
    /\ prevLocal = [index |-> index, files |-> files]
    /\ sent = {}
    /\ consec = 0
    /\ edits = 0
    /\ prevRemote = {}
    /\ call = NoCall
    /\ halted = {}

Next ==
    \/ \E t \in Traits : RemoteAdd(t)
    \/ \E sh \in Shapes : RemoteReset(sh)
    \/ \E p \in DOMAIN files : UserDeleteFile(p)
    \/ \E p \in DOMAIN files : UserCorruptFile(p)
    \/ \E p \in StrayPaths : UserAddFile(p)
    \/ \E p \in DOMAIN files : UserMoveFile(p)
    \/ \E i \in 1..MaxRemote, pr \in Probabilities : UserSetProbability(i, pr)
    \/ \E netOk \in BOOLEAN : pullWorldBook(netOk)
    \/ \E netOk \in BOOLEAN : pushWorldBook(netOk)

(***************************************************************************)
(* DiffEngine.normalizeEntry                                               *)
(***************************************************************************)

\* The field names the model's entries can carry, as Object.keys(entry).sort()
\* orders them (code-unit order).
FieldOrder ==
    <<"addMemo", "automationId", "caseSensitive", "characterFilter",
      "comment", "constant", "content", "cooldown", "delay",
      "delayUntilRecursion", "depth", "disable", "displayIndex",
      "excludeRecursion", "extensions", "group", "groupOverride",
      "groupWeight", "ignoreBudget", "key", "keys", "keysecondary",
      "matchCharacterDepthPrompt", "matchCharacterDescription",
      "matchCharacterPersonality", "matchCreatorNotes",
      "matchPersonaDescription", "matchScenario", "matchWholeWords", "order",
      "position", "preventRecursion", "probability", "rescan", "role",
      "scanDepth", "secondary_keys", "selective", "selectiveLogic", "sticky",
      "triggers", "uid", "useGroupScoring", "useProbability", "vectorized">>

IGNORED_FIELDS ==
    {"uid", "displayIndex", "extensions", "addMemo", "characterFilter",
     "triggers", "rescan", "ignoreBudget", "matchCharacterDepthPrompt",
     "matchCharacterDescription", "matchCharacterPersonality",
     "matchCreatorNotes", "matchPersonaDescription", "matchScenario",
     "useGroupScoring", "vectorized"}

ZeroDropped == {"sticky", "cooldown", "delay", "role"}
NullableFields == {"scanDepth", "caseSensitive", "matchWholeWords",
                   "useGroupScoring", "role", "sticky", "cooldown", "delay"}
ArrayFields == {"key", "keys", "keysecondary", "secondary_keys"}

\* (mutant) a zero sticky / cooldown / delay / role is kept.
KeptWithZeros(entry, k) ==
    /\ k \in DOMAIN entry
    /\ k \in NullableFields => entry[k] # {}
    /\ k \notin IGNORED_FIELDS

\* Whether normalizeEntry keeps field k of entry: present, not null, not
\* ignored, and not a zero sticky / cooldown / delay / role.
Kept(entry, k) ==
    /\ k \in DOMAIN entry
    /\ k \in NullableFields => entry[k] # {}
    /\ k \notin IGNORED_FIELDS
    /\ k \in ZeroDropped => entry[k] # {0}

\* The value of a kept field, a nullable one unwrapped.
CleanValue(entry, k) == IF k \in NullableFields THEN Val(entry[k]) ELSE entry[k]

\* JSON.stringify(clean, null, 2) of one property, as lines: a scalar on one
\* line, an empty array on one line, an array with one line per element.
\* more is whether another property follows (the trailing comma).
PropertyLines(k, v, more) ==
    LET comma == IF more THEN "," ELSE ""
        name == "  " \o ToString(k) \o ": "
    IN  IF k \notin ArrayFields THEN <<name \o ToString(v) \o comma>>
        ELSE IF v = <<>> THEN <<name \o "[]" \o comma>>
        ELSE <<name \o "[">>
             \o [i \in 1..Len(v) |->
                    "    " \o ToString(v[i]) \o (IF i < Len(v) THEN "," ELSE "")]
             \o <<"  ]" \o comma>>

RECURSIVE CleanLines(_, _)
CleanLines(entry, ks) ==
    IF ks = <<>> THEN <<>>
    ELSE PropertyLines(Head(ks), CleanValue(entry, Head(ks)), Len(ks) > 1)
         \o CleanLines(entry, Tail(ks))

\* (mutant) a canonical string that keeps uid.
normalizeEntryKeepUid(entry) ==
    LET ks == SelectSeq(FieldOrder, LAMBDA k : Kept(entry, k) \/ k = "uid")
    IN  <<"{">> \o CleanLines(entry, ks) \o <<"}">>

\* normalizeEntry: the canonical string of an entry, as its sequence of lines.
normalizeEntry(entry) ==
    LET ks == SelectSeq(FieldOrder, LAMBDA k : Kept(entry, k))
    IN  IF ks = <<>> THEN <<"{}">>
        ELSE <<"{">> \o CleanLines(entry, ks) \o <<"}">>

(***************************************************************************)
(* The entry codec on its own: one entry pulled, then pushed back          *)
(***************************************************************************)

\* A complete entry of the remote application, every field at its default.
BaseEntry ==
    [EntryDefaults EXCEPT !.key = <<"sun">>, !.content = "hot"]

\* What the entries of the pool change in BaseEntry, one record each.
Deviations ==
    {<<>>,
     [keysecondary |-> <<"dusk">>], [selectiveLogic |-> 1],
     [scanDepth |-> {2}], [groupWeight |-> 50], [groupOverride |-> TRUE],
     [key |-> <<>>], [content |-> ""], [constant |-> TRUE],
     [selective |-> FALSE], [order |-> 50], [position |-> 1],
     [disable |-> TRUE], [excludeRecursion |-> FALSE],
     [preventRecursion |-> FALSE], [delayUntilRecursion |-> TRUE],
     [probability |-> 50], [useProbability |-> FALSE], [depth |-> 2],
     [group |-> "g"], [caseSensitive |-> {TRUE}], [caseSensitive |-> {FALSE}],
     [matchWholeWords |-> {TRUE}], [automationId |-> "auto"],
     [role |-> {1}], [role |-> {0}], [sticky |-> {3}], [sticky |-> {0}],
     [cooldown |-> {3}], [delay |-> {3}]}

CodecComments == {<<>>, <<"r", "u", "l", "e", "_", "a">>, <<"a", " ", "b">>}

EntryPool ==
    {d @@ Opt(c # <<>>, [comment |-> c]) @@ BaseEntry :
        d \in Deviations, c \in CodecComments}

CodecInit ==
    /\ remote \in {[shape |-> "map", entries |-> <<e>>] : e \in EntryPool}
    /\ index = [exists |-> FALSE, entries |-> <<>>]
    /\ files = NoFiles
    /\ lastOp = "none"
    /\ prevLocal = [index |-> index, files |-> files]
    /\ sent = {}
    /\ consec = 0
    /\ edits = 0
    /\ prevRemote = {}
    /\ call = NoCall
    /\ halted = {}
    /\ WInit /\ OInit

CodecNext ==
    \/ \E netOk \in BOOLEAN : pullWorldBook(netOk)
    \/ \E netOk \in BOOLEAN : pushWorldBook(netOk)

\* One entry encoded by a pull and decoded by the push that follows.
CodecSpec == CodecInit /\ [][CodecNext]_vars

(***************************************************************************)
(* DiffEngine.compareWorldBook                                             *)
(***************************************************************************)

Max(p, q) == IF p >= q THEN p ELSE q

\* String.prototype.trim (the model's only white space is the blank).
RECURSIVE TrimStart(_)
TrimStart(s) == IF s # <<>> /\ Head(s) = " " THEN TrimStart(Tail(s)) ELSE s
RECURSIVE TrimEnd(_)
TrimEnd(s) ==
    IF s # <<>> /\ s[Len(s)] = " " THEN TrimEnd(SubSeq(s, 1, Len(s) - 1)) ELSE s
Trim(s) == TrimEnd(TrimStart(s))

IndexPrefix == <<"_", "_", "i", "n", "d", "e", "x", "_">>

\* (mutant) identity by key alone: a renamed entry stays aligned.
getEntryIdentityByKey(entry, fallbackId) == IndexPrefix \o NumStr(fallbackId)

\* getEntryIdentity: the trimmed comment, or `__index_${fallbackId}`.
getEntryIdentity(entry, fallbackId) ==
    IF Trim(CommentOf(entry)) # <<>> THEN Trim(CommentOf(entry))
    ELSE IndexPrefix \o NumStr(fallbackId)

\* The numbers of a finite set in ascending order.
RECURSIVE Ascending(_)
Ascending(S) ==
    IF S = {} THEN <<>>
    ELSE LET m == CHOOSE x \in S : \A y \in S : x <= y
         IN  <<m>> \o Ascending(S \ {m})

\* A Record<string, Entry> with integer-like keys, as Object.keys walks it:
\* ascending keys, one entry per key (the last one assigned).  The key of an
\* entry is String(uid), for the local record, for a remote array and for
\* the map the remote application keeps.
EntriesRecord(worldInfo) ==
    LET es == worldInfo.entries
        keys == Ascending({es[k].uid : k \in 1..Len(es)})
        last(u) == CHOOSE k \in 1..Len(es) :
                       es[k].uid = u /\ \A l \in 1..Len(es) : es[l].uid = u => l <= k
    IN  [n \in 1..Len(keys) |-> [key |-> keys[n], entry |-> es[last(keys[n])]]]

\* The identities of a record in the order a Map keeps its keys: by first set.
RECURSIVE MapKeys(_, _)
MapKeys(rec, acc) ==
    IF rec = <<>> THEN acc
    ELSE LET id == getEntryIdentity(Head(rec).entry, Head(rec).key)
         IN  MapKeys(Tail(rec),
                     IF \E n \in 1..Len(acc) : acc[n] = id THEN acc
                     ELSE Append(acc, id))

\* Map.get after the sets: the last entry of the record with this identity.
MapGet(rec, id) ==
    LET hits == {n \in 1..Len(rec) : getEntryIdentity(rec[n].entry, rec[n].key) = id}
    IN  rec[CHOOSE n \in hits : \A m \in hits : m <= n].entry

InSeq(x, sq) == \E n \in 1..Len(sq) : sq[n] = x

\* ---- diffLines of the `diff` package: a shortest edit script over lines
\* Row i of the table of longest-common-subsequence lengths: row[j] is the
\* length for the suffixes a[i..] and b[j..]; below is row i + 1.
RECURSIVE LcsRow(_, _, _, _, _)
LcsRow(ai, b, below, j, acc) ==
    IF j = 0 THEN acc
    ELSE LET v == IF ai = b[j] THEN 1 + below[j + 1]
                  ELSE Max(below[j], acc[1])
             next == <<v>> \o acc
         IN  IF Len(next) > 0 THEN LcsRow(ai, b, below, j - 1, next) ELSE next

RECURSIVE Zeros(_)
Zeros(n) == IF n = 0 THEN <<>> ELSE <<0>> \o Zeros(n - 1)

RECURSIVE LcsRows(_, _, _)
LcsRows(a, b, i) ==
    IF i > Len(a) THEN <<Zeros(Len(b) + 1)>>
    ELSE LET rest == LcsRows(a, b, i + 1)
         IN  IF Len(rest) > 0
             THEN <<LcsRow(a[i], b, rest[1], Len(b), <<0>>)>> \o rest
             ELSE rest

\* The edit script, one <<kind, line>> per line; a removal goes before an
\* insertion where both are possible.
RECURSIVE EditScript(_, _, _, _, _)
EditScript(a, b, rows, i, j) ==
    IF i > Len(a) /\ j > Len(b) THEN <<>>
    ELSE IF i > Len(a)
    THEN <<<<"added", b[j]>>>> \o EditScript(a, b, rows, i, j + 1)
    ELSE IF j > Len(b)
    THEN <<<<"removed", a[i]>>>> \o EditScript(a, b, rows, i + 1, j)
    ELSE IF a[i] = b[j]
    THEN <<<<"equal", a[i]>>>> \o EditScript(a, b, rows, i + 1, j + 1)
    ELSE IF rows[i + 1][j] >= rows[i][j + 1]
    THEN <<<<"removed", a[i]>>>> \o EditScript(a, b, rows, i + 1, j)
    ELSE <<<<"added", b[j]>>>> \o EditScript(a, b, rows, i, j + 1)

\* Change[]: adjacent lines of one kind joined into one change.
Changes(script) ==
    LET starts == Ascending({i \in 1..Len(script) :
                                i = 1 \/ script[i][1] # script[i - 1][1]})
        end(n) == IF n < Len(starts) THEN starts[n + 1] - 1 ELSE Len(script)
    IN  [n \in 1..Len(starts) |->
            [kind |-> script[starts[n]][1],
             lines |-> [i \in 1..(end(n) - starts[n] + 1) |->
                           script[starts[n] + i - 1][2]]]]

\* The number of leading lines a and b share, and of trailing lines they
\* share beyond those.
CommonPrefix(a, b) ==
    LET n == IF Len(a) <= Len(b) THEN Len(a) ELSE Len(b)
        differ == {i \in 1..n : a[i] # b[i]}
    IN  IF differ = {} THEN n
        ELSE (CHOOSE i \in differ : \A k \in differ : i <= k) - 1
CommonSuffix(a, b, p) ==
    LET n == (IF Len(a) <= Len(b) THEN Len(a) ELSE Len(b)) - p
        differ == {i \in 1..n : a[Len(a) + 1 - i] # b[Len(b) + 1 - i]}
    IN  IF differ = {} THEN n
        ELSE (CHOOSE i \in differ : \A k \in differ : i <= k) - 1

\* The edit script from a to b: the shared head and tail are equal lines,
\* what lies between them is edited.
LineScript(a, b) ==
    LET p == CommonPrefix(a, b)
        q == CommonSuffix(a, b, p)
        ma == SubSeq(a, p + 1, Len(a) - q)
        mb == SubSeq(b, p + 1, Len(b) - q)
    IN  [i \in 1..p |-> <<"equal", a[i]>>]
        \o EditScript(ma, mb, LcsRows(ma, mb, 1), 1, 1)
        \o [i \in 1..q |-> <<"equal", a[Len(a) - q + i]>>]

\* (mutant) the two arguments of diffLines taken the other way round.
diffLinesSwapped(oldStr, newStr) == Changes(LineScript(newStr, oldStr))

\* diffLines(oldStr, newStr).
diffLines(oldStr, newStr) == Changes(LineScript(oldStr, newStr))

\* The loop over commonKeys.
RECURSIVE Modified(_, _, _)
Modified(commonKeys, localRec, remoteRec) ==
    IF commonKeys = <<>> THEN <<>>
    ELSE LET key == Head(commonKeys)
             localYaml == normalizeEntry(MapGet(localRec, key))
             remoteYaml == normalizeEntry(MapGet(remoteRec, key))
         IN  (IF localYaml # remoteYaml
              THEN <<[id |-> key, diffs |-> diffLines(remoteYaml, localYaml)]>>
              ELSE <<>>)
             \o Modified(Tail(commonKeys), localRec, remoteRec)

\* compareWorldBook once both sides are in memory.
DiffResultOf(localWorldInfo, remoteWorldInfo) ==
    LET localRec == EntriesRecord(localWorldInfo)
        remoteRec == EntriesRecord(remoteWorldInfo)
        localKeys == MapKeys(localRec, <<>>)
        remoteKeys == MapKeys(remoteRec, <<>>)
    IN  [localOnly |-> SelectSeq(localKeys, LAMBDA k : ~InSeq(k, remoteKeys)),
         remoteOnly |-> SelectSeq(remoteKeys, LAMBDA k : ~InSeq(k, localKeys)),
         modified |-> Modified(SelectSeq(localKeys, LAMBDA k : InSeq(k, remoteKeys)),
                               localRec, remoteRec)]

\* ---- compare as it runs, beside a push and the user's edits
\* (mutant) a compare that settles the difference it finds: the remote
\* collection becomes the local one.
storesAfterCompareSyncing(local, rem) ==
    [remote |-> loadWorldBookFromLocal(local), local |-> local]

\* What compareWorldBook leaves of the two stores: it reads index.yaml, the
\* content files and the remote collection, and writes none of them.
storesAfterCompare(local, rem) == [remote |-> rem, local |-> local]

\* A step of compare or of the push beside it, with the history variables
\* of the one-step operations: the local store before the step, nothing sent
\* by a pushWorldBook run as one step.
DiffStep(op) ==
    /\ lastOp' = op
    /\ prevLocal' = Local
    /\ sent' = {}
    /\ consec' = 0
    /\ prevRemote' = {}
    /\ UNCHANGED <<edits, call, halted, wvars, cvars>>

\* compareWorldBook up to its await: the local book is loaded.
compareLoad ==
    /\ cmp = {}
    /\ cmp' = {loadWorldBookFromLocal(Local)}
    /\ diffResult' = {}
    /\ LET after == storesAfterCompare(Local, remote)
       IN  /\ remote' = after.remote
           /\ index' = after.local.index
           /\ files' = after.local.files
    /\ UNCHANGED flight
    /\ DiffStep("compare_load")

\* compareWorldBook after its await: the fetch failed (compare throws), or
\* it returned and the result is computed from the book loaded before.
compareFetched(netOk) ==
    /\ cmp # {}
    /\ cmp' = {}
    /\ diffResult' =
          IF netOk
          THEN {[local |-> Val(cmp), remote |-> remote]
                @@ DiffResultOf(Val(cmp), remote)}
          ELSE {}
    /\ LET after == storesAfterCompare(Local, remote)
       IN  /\ remote' = after.remote
           /\ index' = after.local.index
           /\ files' = after.local.files
    /\ UNCHANGED flight
    /\ DiffStep(IF netOk THEN "compare_ok" ELSE "compare_err")

\* pushWorldBook up to its await: the book is loaded and the replace call sent.
PushBegins ==
    /\ flight = {}
    /\ pushDecision(Local) = "send"
    /\ flight' = {replaceBody(loadWorldBookFromLocal(Local), remote)}
    /\ diffResult' = {}
    /\ UNCHANGED <<remote, index, files, cmp>>
    /\ DiffStep("push_sent")

\* The replace call is answered: applied by the remote, or refused.
PushLands(ok) ==
    /\ flight # {}
    /\ flight' = {}
    /\ remote' = IF ok THEN Val(flight) ELSE remote
    /\ diffResult' = {}
    /\ UNCHANGED <<index, files, cmp>>
    /\ DiffStep(IF ok THEN "push_landed" ELSE "push_refused")

\* The user rewrites the content of a content file.
UserEditContent(p, text) ==
    /\ p \in DOMAIN files
    /\ files[p] # {}
    /\ Val(files[p]).content # text
    /\ EnvStep(remote, index,
               WriteFile(files, p, {[Val(files[p]) EXCEPT !.content = text]}))

\* The user gives an index entry another comment.
UserRename(i, c) ==
    /\ index.exists
    /\ i \in 1..Len(index.entries)
    /\ Field(index.entries[i], "comment", index.entries[i].id) # c
    /\ EnvStep(remote,
               [index EXCEPT !.entries[i] = ("comment" :> c) @@ @],
               files)

\* ---- inputs
RuleA == <<"r", "u", "l", "e", "_", "a">>
RuleB == <<"r", "u", "l", "e", "_", "b">>
NewNames == {RuleB, RuleA \o <<" ">>}
Texts == {"hot"}

\* Two entries as an earlier push of this tool left them on the remote (uid
\* is the index position they had then), an entry the remote application made
\* itself, without a comment, and the entry of the end-to-end scenario, which
\* carries three fields and its uid.
Pushed(id, uid, text) ==
    FullEntry([id |-> id], uid,
              [key |-> <<"sun">>, keysecondary |-> <<>>, content |-> text])
RemoteA == Pushed(RuleA, 3, "cold")
RemoteB == Pushed(RuleB, 4, "wet")
RemoteUnnamed == [BaseEntry EXCEPT !.uid = 5, !.content = "dry"]
RemoteDusk ==
    ("comment" :> RuleB)
    @@ [BaseEntry EXCEPT !.uid = 6, !.content = "dim",
                         !.keysecondary = <<"dusk">>]
RemoteScenario ==
    [uid |-> 0, comment |-> RuleA, key |-> <<"sun">>, content |-> "cold"]

DiffRemotes ==
    {[shape |-> "map", entries |-> es] :
        es \in {<<RemoteA>>, <<RemoteA, RemoteB>>, <<RemoteUnnamed>>,
                <<RemoteDusk>>}}
    \cup {[shape |-> "array", entries |-> <<RemoteA>>]}
ScenarioRemote == [shape |-> "map", entries |-> <<RemoteScenario>>]

EmptyDir == [index |-> [exists |-> FALSE, entries |-> <<>>], files |-> NoFiles]

\* The local book of the end-to-end scenario.
ScenarioLocal ==
    [index |-> [exists |-> TRUE, entries |-> <<[id |-> RuleA]>>],
     files |-> (Path("", RuleA, "yaml") :> {[key |-> <<"sun">>, content |-> "hot"]})]

DiffInit ==
    /\ \/ /\ remote \in DiffRemotes
          /\ \E local \in {EmptyDir, saveWorldBookLocal(remote, EmptyDir)} :
                index = local.index /\ files = local.files
       \/ /\ remote = ScenarioRemote
          /\ index = ScenarioLocal.index
          /\ files = ScenarioLocal.files
    /\ lastOp = "none"
    /\ prevLocal = [index |-> index, files |-> files]
    /\ sent = {}
    /\ consec = 0
    /\ edits = 0
    /\ prevRemote = {}
    /\ call = NoCall
    /\ halted = {}
    /\ WInit /\ OInit

DiffNext ==
    \/ compareLoad
    \/ \E netOk \in BOOLEAN : compareFetched(netOk)
    \/ PushBegins
    \/ \E ok \in BOOLEAN : PushLands(ok)
    \/ \E p \in DOMAIN files, text \in Texts : UserEditContent(p, text)
    \/ \E i \in 1..MaxRemote, c \in NewNames : UserRename(i, c)

\* compare beside a push and the user's edits, from an empty directory, a
\* directory just pulled, or the local book of the end-to-end scenario.
DiffSpec == DiffInit /\ [][DiffNext]_vars

(***************************************************************************)
(* compare of one entry whose two sides drift apart                        *)
(***************************************************************************)

\* What the remote application does to a field of its entry: <<"set", f, v>>
\* or <<"drop", f>>.  First the bookkeeping fields, then null, absent and
\* zero values, then values that matter.
RemoteVariations ==
    <<<<"set", "displayIndex", 7>>, <<"set", "characterFilter", [isExclude |-> FALSE]>>,
      <<"set", "triggers", <<>>>>, <<"set", "vectorized", TRUE>>,
      <<"set", "uid", 9>>, <<"set", "addMemo", TRUE>>,
      <<"drop", "scanDepth">>, <<"drop", "sticky">>, <<"drop", "role">>,
      <<"set", "sticky", {0}>>, <<"set", "role", {}>>,
      <<"set", "cooldown", {0}>>, <<"set", "delay", {0}>>,
      <<"set", "sticky", {3}>>, <<"set", "role", {1}>>,
      <<"set", "scanDepth", {2}>>, <<"set", "content", "hot">>,
      <<"set", "order", 50>>, <<"set", "key", <<>>>>,
      <<"drop", "probability">>, <<"set", "selective", FALSE>>>>

\* The timers the user writes into the index entry.
LocalVariations == <<<<"sticky", {0}>>, <<"sticky", {3}>>, <<"delay", {0}>>>>

Vary(entry, v) ==
    IF v[1] = "set" THEN (v[2] :> v[3]) @@ entry
    ELSE [f \in DOMAIN entry \ {v[2]} |-> entry[f]]

\* The remote application changes a field of its first entry.
RemoteVary(v) ==
    /\ remote.entries # <<>>
    /\ Vary(remote.entries[1], v) # remote.entries[1]
    /\ EnvStep([remote EXCEPT !.entries[1] = Vary(@, v)], index, files)

\* The user sets a timer of the first index entry.
UserSetTimer(t) ==
    /\ index.exists /\ index.entries # <<>>
    /\ Field(index.entries[1], t[1], {}) # t[2]
    /\ EnvStep(remote, [index EXCEPT !.entries[1] = (t[1] :> t[2]) @@ @], files)

\* One remote entry, pulled.
NormInit ==
    /\ remote = [shape |-> "map", entries |-> <<RemoteA>>]
    /\ LET local == saveWorldBookLocal(remote, EmptyDir)
       IN  index = local.index /\ files = local.files
    /\ lastOp = "none"
    /\ prevLocal = [index |-> index, files |-> files]
    /\ sent = {}
    /\ consec = 0
    /\ edits = 0
    /\ prevRemote = {}
    /\ call = NoCall
    /\ halted = {}
    /\ WInit /\ OInit

NormNext ==
    \/ compareLoad
    \/ \E netOk \in BOOLEAN : compareFetched(netOk)
    \/ \E n \in 1..Len(RemoteVariations) : RemoteVary(RemoteVariations[n])
    \/ \E n \in 1..Len(LocalVariations) : UserSetTimer(LocalVariations[n])

\* compare of one entry between changes of its fields on either side.
NormSpec == NormInit /\ [][NormNext]_vars

(***************************************************************************)
(* SyncService.pushCharacter, in its two definitions                       *)
(***************************************************************************)

\* The body of POST /api/characters/edit as pushCharacter builds it
\* (part_001:524-541): avatar, chat and create_date of the record fetched,
\* the texts of the local files, the link to the first linked world book.
\* JSON.stringify leaves out extensions when it is undefined.
editBody(remoteChar, metadata, worldName) ==
    [avatar_url |-> remoteChar.avatar,
     ch_name |-> metadata.name,
     description |-> Field(metadata, "description", ""),
     scenario |-> Field(metadata, "scenario", ""),
     first_mes |-> Field(metadata, "first_mes", ""),
     chat |-> remoteChar.chat,
     create_date |-> remoteChar.create_date,
     json_data |-> metadata]
    @@ (IF worldName # "" THEN [extensions |-> worldName] ELSE <<>>)

\* The body as the second definition builds it (part_001:807-815).
editBodySecond(remoteChar, metadata, worldName) ==
    [avatar_url |-> remoteChar.avatar,
     ch_name |-> metadata.name,
     json_data |-> metadata]

\* Names of the directories under linked_worldbooks/.
BookNames == <<"lore", "more">>

\* fileNum.toString().padStart(2, '0'): the NN of first_message_NN.md.
Pad2(n) == IF n < 10 THEN <<"0">> \o NumStr(n) ELSE NumStr(n)

\* The order of Array.prototype.sort on the names first_message_NN.md, as an
\* order on their NN parts: code units from the left; where one NN is a
\* prefix of the other, the "." that follows makes the shorter one first.
DigitVal(c) == CHOOSE d \in 0..9 : DigitChars[d + 1] = c
NameBefore(a, b) ==
    LET n == IF Len(a) <= Len(b) THEN Len(a) ELSE Len(b)
        differ == {i \in 1..n : a[i] # b[i]}
    IN  IF differ = {} THEN Len(a) < Len(b)
        ELSE LET i == CHOOSE i \in differ : \A k \in differ : i <= k
             IN  DigitVal(a[i]) < DigitVal(b[i])

\* The names in a set of NN parts, sorted.
RECURSIVE SortNames(_)
SortNames(S) ==
    IF S = {} THEN <<>>
    ELSE LET first == CHOOSE a \in S : \A b \in S \ {a} : NameBefore(a, b)
         IN  <<first>> \o SortNames(S \ {first})

\* The metadata pushCharacter sends: character.yaml with first_mes,
\* alternate_greetings, description and scenario replaced by the texts of
\* the files that exist (part_001:469-494).
readTexts(project) ==
    LET md == project.md
        sorted == SortNames(DOMAIN project.alts)
        over(m, file, field) ==
            IF file \in DOMAIN md THEN (field :> md[file]) @@ m ELSE m
        m1 == over(project.metadata, "first_message.md", "first_mes")
        m2 == IF sorted # <<>>
              THEN ("alternate_greetings" :>
                       [k \in 1..Len(sorted) |-> project.alts[sorted[k]]]) @@ m1
              ELSE m1
        m3 == over(m2, "description.md", "description")
    IN  over(m3, "scenario.md", "scenario")

\* pushCharacter after the record is fetched: character.yaml is read (its
\* absence throws), each linked world book is pushed (first definition; a
\* push that throws ends the run) or the first one embedded (second
\* definition), the metadata validated (a name is required), and the edit
\* sent.  The result is the calls made and how the run ended.
pushCharacterRest(def, remoteChar, project, wbOk) ==
    LET linked == project.books > 0
        worldName == IF linked THEN BookNames[1] ELSE ""
        metadata ==
            IF linked
            THEN ("world" :> worldName) @@ readTexts(project)
            ELSE readTexts(project)
        wbCalls ==
            IF def = 1
            THEN [n \in 1..project.books |->
                    [call |-> "worldinfo_edit", name |-> BookNames[n]]]
            ELSE <<>>
    IN  IF ~project.exists THEN [calls |-> <<>>, outcome |-> "char_no_yaml"]
        ELSE IF def = 1 /\ linked /\ ~wbOk
        THEN [calls |-> <<>>, outcome |-> "char_book_failed"]
        ELSE IF project.metadata.name = ""
        THEN [calls |-> wbCalls, outcome |-> "char_invalid"]
        ELSE [calls |-> wbCalls \o
                 <<[call |-> "characters_edit",
                    body |-> IF def = 1
                             THEN editBody(remoteChar, metadata, worldName)
                             ELSE editBodySecond(remoteChar, metadata,
                                                 worldName)]>>,
              outcome |-> "char_ok"]

\* A step of pushCharacter or of the changes around it.
CharStep(op) ==
    /\ lastOp' = op
    /\ UNCHANGED <<remote, index, files, prevLocal, sent, consec, prevRemote,
                   call, halted, wvars, dvars>>

\* pushCharacter up to its first await: CharacterReader.getByName; a
\* character the remote does not have ends the run.
pushCharacterFetch(def) ==
    /\ cfetch = {}
    /\ creq' = <<[call |-> "characters_get", result |-> rchar, def |-> def,
                   after |-> lastOp]>>
    /\ cfetch' = IF rchar = {} THEN {}
                 ELSE {[def |-> def, remoteChar |-> Val(rchar)]}
    /\ UNCHANGED <<rchar, lchar, edits>>
    /\ CharStep(IF rchar = {} THEN "char_absent" ELSE "char_fetched")

\* pushCharacter after the await.  The remote takes the description of an
\* edit it receives; what it does with the rest of the body is its own.
pushCharacterSend(wbOk) ==
    /\ cfetch # {}
    /\ LET run == pushCharacterRest(Val(cfetch).def, Val(cfetch).remoteChar,
                                    lchar, wbOk)
       IN  /\ creq' = creq \o run.calls
           /\ rchar' =
                 IF run.outcome = "char_ok" /\ rchar # {}
                 THEN {[Val(rchar) EXCEPT !.description =
                          Field(readTexts(lchar), "description", "")]}
                 ELSE rchar
           /\ CharStep(run.outcome)
    /\ cfetch' = {}
    /\ UNCHANGED <<lchar, edits>>

\* The remote character changes (a chat is opened, the card is replaced or
\* deleted) and the user edits the project, between the steps of a push.
RemoteCharChange(c) ==
    /\ edits < MaxEdits
    /\ rchar # c
    /\ rchar' = c
    /\ edits' = edits + 1
    /\ UNCHANGED <<lchar, cfetch, creq>>
    /\ CharStep("env")
UserCharEdit(project) ==
    /\ edits < MaxEdits
    /\ lchar # project
    /\ lchar' = project
    /\ edits' = edits + 1
    /\ UNCHANGED <<rchar, cfetch, creq>>
    /\ CharStep("env")

\* ---- inputs
RemoteChars ==
    {[name |-> "Ann", avatar |-> a, chat |-> c, create_date |-> "2024-05-01",
      description |-> "old"] : a \in {"Ann.png", "Ann1.png"},
                               c \in {"Ann - chat 1", "Ann - chat 2"}}
\* character.yaml as a pull wrote it (name and avatar), with a description,
\* without a name, and with chat and create_date typed in by the user.
LocalMetadata ==
    {[name |-> "Ann", avatar |-> "Ann.png"],
     [name |-> "Ann", avatar |-> "Ann.png", description |-> "new"],
     [name |-> "", avatar |-> "Ann.png"],
     [name |-> "Ann", avatar |-> "local.png", chat |-> "local chat",
      create_date |-> "1999-01-01"]}
LocalProjects ==
    {NoProject}
    \cup {[exists |-> TRUE, metadata |-> m, books |-> b, md |-> <<>>,
           alts |-> <<>>] :
            m \in LocalMetadata, b \in 0..Len(BookNames)}

CharInit ==
    /\ SInit /\ WInit /\ remote.shape = "absent"
    /\ flight = {} /\ cmp = {} /\ diffResult = {}
    /\ rchar \in {{}} \cup {{c} : c \in RemoteChars}
    /\ lchar \in LocalProjects
    /\ cfetch = {}
    /\ creq = <<>>

CharNext ==
    \/ \E def \in {1, 2} : pushCharacterFetch(def)
    \/ \E wbOk \in BOOLEAN : pushCharacterSend(wbOk)
    \/ \E c \in {{}} \cup {{r} : r \in RemoteChars} : RemoteCharChange(c)
    \/ \E project \in LocalProjects : UserCharEdit(project)

\* pushCharacter in either definition, beside changes of the remote
\* character and of the local project.
CharSpec == CharInit /\ [][CharNext]_vars

(***************************************************************************)
(* PullService.pullCharacter, and the push that follows it                 *)
(***************************************************************************)

MaxGreetings == 2

\* The fields of CharacterSchema the model's characters carry; safeParse
\* strips every other key (chat, create_date) and fills the defaults.
CharacterFields ==
    {"name", "description", "scenario", "first_mes", "avatar",
     "alternate_greetings"}
CharacterData(raw) ==
    [f \in (CharacterFields \cap DOMAIN raw) \cup {"alternate_greetings"} |->
        IF f \in DOMAIN raw THEN raw[f] ELSE <<>>]

\* The project directory after pullCharacter wrote charData into it: a text
\* file for each text that is not empty, one first_message_NN.md per
\* alternate greeting from NN = 02 on, and character.yaml with the rest.
\* Files already there and not written again stay.  (The character has no
\* embedded world book, and card.png is not part of the model.)
saveCharacterLocal(charData, project) ==
    LET put(md, file, field) ==
            IF field \in DOMAIN charData /\ charData[field] # ""
            THEN (file :> charData[field]) @@ md ELSE md
        md1 == put(project.md, "first_message.md", "first_mes")
        md2 == put(md1, "scenario.md", "scenario")
        greetings == charData.alternate_greetings
        written == [nn \in {Pad2(k + 1) : k \in 1..Len(greetings)} |->
                      greetings[CHOOSE k \in 1..Len(greetings) : Pad2(k + 1) = nn]]
    IN  [exists |-> TRUE,
         metadata |-> [f \in DOMAIN charData
                              \ {"first_mes", "scenario", "description"} |->
                          charData[f]],
         books |-> project.books,
         md |-> put(md2, "description.md", "description"),
         alts |-> written @@ project.alts]

\* pullCharacter: the fetch finds no character, or the directory is written.
pullCharacter ==
    /\ cfetch = {}
    /\ lchar' = IF rchar = {} THEN lchar
                ELSE saveCharacterLocal(CharacterData(Val(rchar)), lchar)
    /\ UNCHANGED <<rchar, cfetch, creq, edits>>
    /\ CharStep(IF rchar = {} THEN "charpull_notfound" ELSE "charpull_ok")

\* ---- inputs
Greetings == <<"yo", "hey">>
GreetingsOf(n) == [k \in 1..n |-> Greetings[((k - 1) % Len(Greetings)) + 1]]
CardTexts ==
    {[description |-> d, scenario |-> o[1], first_mes |-> o[2],
      alternate_greetings |-> GreetingsOf(n)] :
        d \in {"", "tall"}, o \in {<<"", "hi">>, <<"sea", "">>},
        n \in 0..MaxGreetings}
CardRemotes ==
    {[name |-> "Ann", avatar |-> "Ann.png", chat |-> "Ann - chat 1",
      create_date |-> "2024-05-01"] @@ t : t \in CardTexts}

CardInit ==
    /\ SInit /\ WInit /\ remote.shape = "absent"
    /\ flight = {} /\ cmp = {} /\ diffResult = {}
    /\ rchar \in {{c} : c \in CardRemotes}
    /\ lchar = NoProject
    /\ cfetch = {}
    /\ creq = <<>>

CardNext ==
    \/ pullCharacter
    \/ pushCharacterFetch(1)
    \/ \E wbOk \in BOOLEAN : pushCharacterSend(wbOk)
    \/ \E c \in {{}} \cup {{r} : r \in CardRemotes} : RemoteCharChange(c)

\* pullCharacter and pushCharacter of one character whose texts change on
\* the remote between them.
CardSpec == CardInit /\ [][CardNext]_vars

(***************************************************************************)
(* Pulls of collections whose names collide                                *)
(***************************************************************************)

MaxNames == 3

\* Comments that are equal, that sanitize to the same name ("a 1", "a_1"),
\* that equal a name with the suffix the loop produces ("a", "a_1"), and no
\* comment at all.
NamePool == {<<>>, <<"a">>, <<"a", "_", "1">>, <<"a", " ", "1">>}
NameTexts == <<"hot", "wet", "dry">>

NamedRemotes ==
    {[shape |-> sh,
      entries |-> [k \in 1..MaxNames |->
                     RawEntry(k - 1, cs[k], DefaultOrder, DefaultProbability,
                              NameTexts[k])]] :
        sh \in {"map", "array"}, cs \in [1..MaxNames -> NamePool]}

\* The remote application renames an entry.
RemoteRename(k, c) ==
    /\ k \in 1..Len(remote.entries)
    /\ CommentOf(remote.entries[k]) # c
    /\ EnvStep([remote EXCEPT !.entries[k] =
                   RawEntry(@.uid, c, @.order, @.probability, @.content)],
               index, files)

NamesInit ==
    /\ remote \in NamedRemotes
    /\ index = [exists |-> FALSE, entries |-> <<>>]
    /\ files = NoFiles
    /\ lastOp = "none"
    /\ prevLocal = [index |-> index, files |-> files]
    /\ sent = {}
    /\ consec = 0
    /\ edits = 0
    /\ prevRemote = {}
    /\ call = NoCall
    /\ halted = {}
    /\ WInit /\ OInit

NamesNext ==
    \/ \E netOk \in BOOLEAN : pullWorldBook(netOk)
    \/ \E k \in 1..MaxNames : RemoteRename(k, <<"a">>)
    \/ \E p \in DOMAIN files : UserMoveFile(p)

\* Pulls of a remote whose entries' names collide, beside renames on the
\* remote and content files moved into a folder.
NamesSpec == NamesInit /\ [][NamesNext]_vars

(***************************************************************************)
(* GeneratorService.generateEntries                                        *)
(***************************************************************************)

MaxCount == 2
MaxIndex == 4
GeneratedOrder == 100

\* `Generated entry ${id}`
GeneratedComment(id) ==
    <<"G", "e", "n", "e", "r", "a", "t", "e", "d", " ", "e", "n", "t", "r", "y", " ">> \o id

\* The template written to a new content file, as parseContent reads it.
TemplateDoc == [key |-> <<>>, keysecondary |-> <<>>, content |-> "placeholder"]

\* The loop over i = 1..count, from i on: an id whose file entries/<id>.yaml
\* exists is skipped, any other gets the template file and a new index entry.
\* acc is [fs, newEntries].
RECURSIVE GenerateFiles(_, _, _, _)
GenerateFiles(prefix, count, i, acc) ==
    IF i > count THEN acc
    ELSE LET id == prefix \o <<"_">> \o NumStr(i)
             filePath == Path("", id, "yaml")
         IN  IF filePath \in DOMAIN acc.fs
             THEN GenerateFiles(prefix, count, i + 1, acc)
             ELSE GenerateFiles(prefix, count, i + 1,
                     [fs |-> WriteFile(acc.fs, filePath, {TemplateDoc}),
                      newEntries |->
                          Append(acc.newEntries,
                                 [id |-> id, comment |-> GeneratedComment(id),
                                  enabled |-> TRUE, order |-> GeneratedOrder])])

\* generateEntries(prefix, count): the local store after it ran.  The index
\* is rewritten only when an entry was generated; a missing index.yaml is
\* taken as one without entries.
generateEntries(prefix, count, local) ==
    LET done == GenerateFiles(prefix, count, 1,
                              [fs |-> local.files, newEntries |-> <<>>])
    IN  [index |-> IF done.newEntries = <<>> THEN local.index
                   ELSE writeIndex(local.index.entries \o done.newEntries),
         files |-> done.fs]

\* One run of generateEntries.
Generate(prefix, count) ==
    /\ Len(index.entries) + count <= MaxIndex
    /\ LET after == generateEntries(prefix, count, Local)
       IN  /\ index' = after.index
           /\ files' = after.files
    /\ call' = [op |-> "generate", prefix |-> prefix, count |-> count]
    /\ halted' = {}
    /\ lastOp' = "generate"
    /\ prevLocal' = Local
    /\ sent' = {}
    /\ consec' = 0
    /\ prevRemote' = {}
    /\ diffResult' = {}
    /\ UNCHANGED <<remote, edits, wvars, flight, cmp, cvars>>

\* The user deletes an index entry, or renames a content file to .yml.
UserDropIndexEntry(i) ==
    /\ index.exists
    /\ i \in 1..Len(index.entries)
    /\ EnvStep(remote,
               [index EXCEPT !.entries =
                   SubSeq(@, 1, i - 1) \o SubSeq(@, i + 1, Len(@))],
               files)
UserRenameToYml(p) ==
    /\ p \in TopLevel(files)
    /\ p.ext = "yaml"
    /\ [p EXCEPT !.ext = "yml"] \notin DOMAIN files
    /\ EnvStep(remote, index,
               WriteFile(Unlink(files, {p}), [p EXCEPT !.ext = "yml"], files[p]))

Prefixes == {<<"p">>}

GenInit == SInit /\ WInit /\ OInit /\ remote.shape = "absent"

GenNext ==
    \/ \E prefix \in Prefixes, count \in 0..MaxCount : Generate(prefix, count)
    \/ \E p \in DOMAIN files : UserDeleteFile(p)
    \/ \E p \in DOMAIN files : UserMoveFile(p)
    \/ \E p \in DOMAIN files : UserRenameToYml(p)
    \/ \E i \in 1..MaxIndex : UserDropIndexEntry(i)

\* generateEntries beside the user's deleting, moving and renaming content
\* files and dropping index entries.
GenSpec == GenInit /\ [][GenNext]_vars

(***************************************************************************)
(* A pull that is stopped part-way                                         *)
(***************************************************************************)

\* The points saveWorldBookLocal can stop at, as <<k, gone>>: after the
\* first k content files were written, or, every file written, after the
\* cleanup unlinked the files gone.  readdirSync fixes no order, so gone is
\* any set of orphans; index.yaml is written last.
StopPoints(worldInfo, local) ==
    LET sorted == SortEntries(ValidatedEntries(worldInfo.entries))
        written == WriteEntries(sorted, [idx |-> <<>>, fs |-> local.files])
    IN  {<<k, {}>> : k \in 0..Len(sorted)}
        \cup {<<Len(sorted), gone>> :
                 gone \in SUBSET Orphans(written.fs, written.idx)}

\* The local store saveWorldBookLocal leaves when it stops at <<k, gone>>.
saveWorldBookLocalStopped(worldInfo, local, pt) ==
    LET sorted == SortEntries(ValidatedEntries(worldInfo.entries))
        written == WriteEntries(SubSeq(sorted, 1, pt[1]),
                                [idx |-> <<>>, fs |-> local.files])
    IN  [index |-> local.index, files |-> Unlink(written.fs, pt[2])]

\* pullWorldBook whose process ends inside saveWorldBookLocal.
PullStopped ==
    /\ ~fetchedIsMissing(remote)
    /\ \E pt \in StopPoints(remote, Local) :
          LET after == saveWorldBookLocalStopped(remote, Local, pt)
          IN  /\ index' = after.index
              /\ files' = after.files
    /\ halted' = {Local}
    /\ lastOp' = "pull_stopped"
    /\ prevLocal' = Local
    /\ sent' = {}
    /\ consec' = 0
    /\ prevRemote' = {}
    /\ call' = NoCall
    /\ diffResult' = {}
    /\ UNCHANGED <<remote, edits, wvars, flight, cmp, cvars>>

HaltInit == SInit /\ WInit /\ OInit /\ remote.shape # "absent"

HaltNext ==
    \/ \E t \in Traits : RemoteAdd(t)
    \/ \E p \in StrayPaths : UserAddFile(p)
    \/ \E p \in DOMAIN files : UserMoveFile(p)
    \/ pullWorldBook(TRUE)
    \/ PullStopped

\* Pulls of a remote collection, some of them stopped part-way.
HaltSpec == HaltInit /\ [][HaltNext]_vars

(***************************************************************************)
(* Specifications                                                          *)
(***************************************************************************)

\* The sync engine: pull, push and the edits around them.
Init == SInit /\ WInit /\ OInit
Spec == Init /\ [][Next]_vars

\* The file watcher.
WatcherInit == WInit /\ SInit /\ OInit /\ remote.shape = "absent"
WatcherSpec == WatcherInit /\ [][WatcherNext]_vars

\* The file watcher when every push it invokes settles: the promise of
\* SyncService.push is fulfilled or rejected while the process runs.
WatcherLiveSpec ==
    WatcherSpec /\ WF_vars(\E ok \in BOOLEAN : PushSettles(ok))

(***************************************************************************)
(* Properties of the file watcher (checked under WatcherSpec)              *)
(***************************************************************************)

Settled == {"settled_ok", "settled_fail"}
Idle == ~isPushing /\ ~pushQueue

\* C1: at most one SyncService.push started by the watcher is unfinished at
\* any time, whatever the events and the outcomes of the pushes.
C1_OnePushInFlight == inflight <= 1

\* A second push runs alone after events arrived during the first.
C1_Witness == inflight = 1 /\ pushCount >= 2 /\ evTotal >= 3 /\ failed

\* C2: when a push settles, the n events delivered while it ran start exactly
\* one further push if n >= 1 and none if n = 0.
C2_Coalescing ==
    [][lastStep' \in Settled =>
          pushCount' = pushCount + (IF evDuring >= 1 THEN 1 ELSE 0)]_vars

\* Five events arrived during the first push; its completion started the
\* second push, and there are two pushes in all.
C2_Witness ==
    lastStep \in Settled /\ evTotal = 6 /\ pushCount = 2 /\ inflight = 1

\* C3: when a push settles, with either outcome: if pushQueue was set it is
\* cleared and a push is invoked in the same turn; otherwise the watcher is
\* Idle and no push is invoked.
C3_Completion ==
    [][lastStep' \in Settled =>
          IF pushQueue
          THEN /\ ~pushQueue' /\ isPushing'
               /\ pushCount' = pushCount + 1 /\ inflight' = 1
          ELSE /\ ~pushQueue' /\ ~isPushing'
               /\ pushCount' = pushCount /\ inflight' = 0]_vars

\* A failed push with a queued event has just been followed by the re-push.
C3_Witness ==
    lastStep = "settled_fail" /\ isPushing /\ ~pushQueue /\ pushCount >= 2

\* C4: a failed push leaves the watcher running, Idle or in the queued
\* re-push, and every event is gated as after a successful push: it starts a
\* push when none is running and sets pushQueue otherwise.
C4_FailureKeepsLoop ==
    [][/\ lastStep' = "settled_fail" =>
             /\ proc' = "watching"
             /\ Idle' \/ (isPushing' /\ ~pushQueue' /\ inflight' = 1)
       /\ lastStep' = "event" =>
             /\ proc' = "watching" /\ isPushing'
             /\ IF isPushing
                THEN pushQueue' /\ pushCount' = pushCount
                ELSE pushCount' = pushCount + 1 /\ inflight' = 1]_vars

\* After a failed push the watcher went Idle and a later event started a push.
C4_Witness ==
    /\ failed /\ lastStep = "event" /\ proc = "watching"
    /\ inflight = 1 /\ evDuring = 0 /\ pushCount >= 2

(***************************************************************************)
(* Properties of pull and push (checked under Spec)                        *)
(***************************************************************************)

IndexPositions == 1..Len(index.entries)
HasId(ie) == "id" \in DOMAIN ie /\ ie.id # <<>>

\* Index entry i names a content file that is nowhere under entries/.
MissingAt(i) ==
    HasId(index.entries[i]) /\ findEntryFile(files, index.entries[i].id) = {}

\* Index entry i has a content file that parses.
ReadableAt(i) ==
    /\ HasId(index.entries[i])
    /\ findEntryFile(files, index.entries[i].id) # {}
    /\ files[Val(findEntryFile(files, index.entries[i].id))] # {}

ContentAt(i) == Val(files[Val(findEntryFile(files, index.entries[i].id))])
ProbabilityAt(i) == Field(index.entries[i], "probability", DefaultProbability)
InRange(pr) == pr >= MinProbability /\ pr <= MaxProbability

UidsOf(wb) == {wb.entries[k].uid : k \in 1..Len(wb.entries)}

\* C5: after a successful push, an index entry whose content file is missing
\* is neither in the loaded record set nor in the collection sent to the
\* remote, and every index entry whose content file exists and is valid is
\* in the collection sent, with that file's content.
C5_DeletionPropagates ==
    lastOp = "push_ok" =>
        \A i \in IndexPositions :
            /\ MissingAt(i) =>
                  /\ (i - 1) \notin UidsOf(loadWorldBookFromLocal(Local))
                  /\ (i - 1) \notin UidsOf(Val(sent))
                  /\ (i - 1) \notin UidsOf(remote)
            /\ (ReadableAt(i) /\ InRange(ProbabilityAt(i))) =>
                  \E k \in 1..Len(remote.entries) :
                      /\ remote.entries[k].uid = i - 1
                      /\ remote.entries[k].content = Field(ContentAt(i), "content", "")
                      /\ remote.entries[k].key = Field(ContentAt(i), "key", <<>>)
                      /\ Val(sent).entries[k] = remote.entries[k]

\* A push went through with one entry's file deleted and another's in place.
C5_Witness ==
    /\ lastOp = "push_ok"
    /\ \E i \in IndexPositions : MissingAt(i)
    /\ \E i \in IndexPositions : ReadableAt(i) /\ InRange(ProbabilityAt(i))

\* C6 (the claim as stated): a push of a local book in which some entry with
\* an id and a readable content file fails the Entry schema fails, and sends
\* no replace call.
C6_PushAbortsOnInvalid ==
    (/\ lastOp \in {"push_ok", "push_neterr", "push_invalid"}
     /\ \E i \in IndexPositions : ReadableAt(i) /\ ~InRange(ProbabilityAt(i)))
    => (lastOp = "push_invalid" /\ sent = {})

\* C7 (the claim as stated): a pull whose fetch returned a collection without
\* entries fails as not found / empty and leaves every local file as it was.
C7_EmptyPullFails ==
    (/\ lastOp \in {"pull_ok", "pull_notfound"}
     /\ (remote.shape = "absent" \/ remote.entries = <<>>))
    => (lastOp = "pull_notfound" /\ Local = prevLocal)

\* The remote entries that pass the schema, by position.
ValidRemote ==
    {k \in 1..Len(remote.entries) :
        InRange(Field(remote.entries[k], "probability", DefaultProbability))}

\* C8: a pull whose fetch returned entries succeeds whatever their validity,
\* and writes exactly one index entry and one content file per remote entry
\* that passes the schema: the index entries have pairwise distinct ids and
\* match the valid remote entries one to one, each with its content file.
C8_InvalidDropped ==
    /\ (lastOp \in {"pull_ok", "pull_notfound"} /\ remote.shape # "absent")
          => lastOp = "pull_ok"
    /\ lastOp = "pull_ok" =>
          /\ Len(index.entries) = Cardinality(ValidRemote)
          /\ \A i, j \in IndexPositions :
                index.entries[i].id = index.entries[j].id => i = j
          /\ \E f \in [ValidRemote -> IndexPositions] :
                /\ \A k, l \in ValidRemote : f[k] = f[l] => k = l
                /\ \A k \in ValidRemote :
                      /\ index.entries[f[k]].order = remote.entries[k].order
                      /\ ReadableAt(f[k])
                      /\ ContentAt(f[k]) = [key |-> remote.entries[k].key,
                                            content |-> remote.entries[k].content]

\* A pull went through with a valid and an invalid remote entry.
C8_Witness ==
    /\ lastOp = "pull_ok"
    /\ ValidRemote # {}
    /\ ValidRemote # 1..Len(remote.entries)

\* The path an id is written to by a pull that started from the files fs.
WrittenPath(fs, id) ==
    IF findEntryFile(fs, id) # {} THEN Val(findEntryFile(fs, id))
    ELSE Path("", id, "yaml")

C10_IdempotentPull == consec = 2 => Local = prevLocal

\* The second pull has run, on a collection that its sort reorders.
C10_Witness ==
    /\ consec = 2
    /\ Len(index.entries) = 2
    /\ index.entries[1].order < index.entries[2].order

(***************************************************************************)
(* Properties of the entry codec (checked under CodecSpec)                 *)
(***************************************************************************)

\* C11 (the claim as stated): a valid entry encoded to its index entry and
\* content file by a pull and decoded by the local load of the push that
\* follows has the canonical string of the original entry, uid aside.
C11_RoundTrip ==
    lastOp = "push_ok" =>
        \A k \in 1..Len(remote.entries) :
            normalizeEntry(remote.entries[k])
                = normalizeEntry(Val(validate(Val(prevRemote).entries[k])))

\* Every behavioural field of e is at its declared default and e has no name.
AllDefault(e) ==
    /\ "comment" \notin DOMAIN e
    /\ \A f \in DOMAIN EntryDefaults \ {"uid", "key", "keysecondary", "content"} :
          e[f] = EntryDefaults[f]

\* C12 (the claim as stated): the index record a pull writes for an entry
\* whose behavioural fields are all at their defaults holds the id and
\* nothing else.
C12_DefaultSuppression ==
    (lastOp = "pull_ok" /\ Len(remote.entries) = 1
        /\ AllDefault(Val(validate(remote.entries[1]))))
    => DOMAIN index.entries[1] = {"id"}

(***************************************************************************)
(* Properties of compare (checked under DiffSpec)                          *)
(***************************************************************************)

WithoutUid(e) == [f \in DOMAIN e \ {"uid"} |-> e[f]]
WithoutName(e) == [f \in DOMAIN e \ {"uid", "comment"} |-> e[f]]
HasName(e) == \E n \in 1..Len(CommentOf(e)) : CommentOf(e)[n] # " "

\* Two collections with the same entries in the same places: the same field
\* values, uid aside, and the same identity (an entry without a name has its
\* key, the uid, for identity).
SameCollections(a, b) ==
    /\ Len(a.entries) = Len(b.entries)
    /\ \A k \in 1..Len(a.entries) :
          /\ WithoutUid(a.entries[k]) = WithoutUid(b.entries[k])
          /\ a.entries[k].uid = b.entries[k].uid \/ HasName(a.entries[k])

\* C13: a compare whose local and remote collection hold the same entries
\* returns empty localOnly, remoteOnly and modified.
C13_DiffStability ==
    \A r \in diffResult :
        SameCollections(r.local, r.remote)
        => r.localOnly = <<>> /\ r.remoteOnly = <<>> /\ r.modified = <<>>

\* A compare ran on equal, non-empty collections whose uids differ.
C13_Witness ==
    \E r \in diffResult :
        /\ SameCollections(r.local, r.remote)
        /\ r.local.entries # <<>>
        /\ r.local.entries[1].uid # r.remote.entries[1].uid

IdentitiesOf(worldInfo) ==
    {getEntryIdentity(worldInfo.entries[k], worldInfo.entries[k].uid) :
        k \in 1..Len(worldInfo.entries)}

\* The lines of the changes of the kinds given, in order.
RECURSIVE LinesOf(_, _)
LinesOf(diffs, kinds) ==
    IF diffs = <<>> THEN <<>>
    ELSE (IF Head(diffs).kind \in kinds THEN Head(diffs).lines ELSE <<>>)
         \o LinesOf(Tail(diffs), kinds)

ContentLine(text) == PropertyLines("content", text, TRUE)[1]
HasChange(diffs, kind, line) ==
    \E n \in 1..Len(diffs) : diffs[n].kind = kind /\ InSeq(line, diffs[n].lines)

\* The compare of the end-to-end scenario: local {id rule_a, key [sun],
\* content hot}, remote {comment rule_a, key [sun], content cold}.
IsScenario(r) ==
    /\ r.remote.entries = <<RemoteScenario>>
    /\ Len(r.local.entries) = 1
    /\ r.local.entries[1].comment = RuleA
    /\ r.local.entries[1].content = "hot"

\* C14: an identity present on both sides is in modified exactly when the two
\* canonical strings differ, and then once, with a line diff from the remote
\* string (the lines not marked added) to the local string (the lines not
\* marked removed); modified holds no other identity; in the end-to-end
\* scenario modified is one item, rule_a, with cold removed and hot added.
C14_ModifiedDiff ==
    \A r \in diffResult :
        LET localRec == EntriesRecord(r.local)
            remoteRec == EntriesRecord(r.remote)
            common == IdentitiesOf(r.local) \cap IdentitiesOf(r.remote)
            items(id) == {n \in 1..Len(r.modified) : r.modified[n].id = id}
        IN  /\ \A n \in 1..Len(r.modified) : r.modified[n].id \in common
            /\ \A id \in common :
                  LET localYaml == normalizeEntry(MapGet(localRec, id))
                      remoteYaml == normalizeEntry(MapGet(remoteRec, id))
                  IN  /\ Cardinality(items(id))
                            = IF localYaml # remoteYaml THEN 1 ELSE 0
                      /\ \A n \in items(id) :
                            /\ LinesOf(r.modified[n].diffs, {"equal", "removed"})
                                  = remoteYaml
                            /\ LinesOf(r.modified[n].diffs, {"equal", "added"})
                                  = localYaml
            /\ IsScenario(r) =>
                  /\ Len(r.modified) = 1
                  /\ r.modified[1].id = RuleA
                  /\ HasChange(r.modified[1].diffs, "removed", ContentLine("cold"))
                  /\ HasChange(r.modified[1].diffs, "added", ContentLine("hot"))

\* The compare of the end-to-end scenario has run.
C14_Witness == \E r \in diffResult : IsScenario(r) /\ r.modified # <<>>

\* Local entry l is remote entry m under another, non-empty comment: the two
\* agree in every other field, and no local entry carries m's comment.
RenamedFrom(r, l, m) ==
    /\ WithoutName(l) = WithoutName(m)
    /\ CommentOf(m) # <<>>
    /\ CommentOf(l) # <<>>
    /\ CommentOf(l) # CommentOf(m)
    /\ \A k \in 1..Len(r.local.entries) :
          CommentOf(r.local.entries[k]) # CommentOf(m)

EntriesOf(worldInfo) == {worldInfo.entries[k] : k \in 1..Len(worldInfo.entries)}
ModifiedIds(r) == {r.modified[n].id : n \in 1..Len(r.modified)}

\* C15 (the claim as stated): for a local entry renamed to any different
\* non-empty comment, compare has the new name in localOnly, the old name in
\* remoteOnly, and neither in modified.
C15_RenameAsStated ==
    \A r \in diffResult :
        \A l \in EntriesOf(r.local), m \in EntriesOf(r.remote) :
            RenamedFrom(r, l, m) =>
                /\ InSeq(Trim(CommentOf(l)), r.localOnly)
                /\ InSeq(Trim(CommentOf(m)), r.remoteOnly)
                /\ Trim(CommentOf(l)) \notin ModifiedIds(r)
                /\ Trim(CommentOf(m)) \notin ModifiedIds(r)

\* C15 (amended): the same, for a new name that is not blank, differs from
\* the old one after trimming, and is the identity of no remote entry, and an
\* old name that is not blank and is the identity of no local entry.
C15_RenameNotTracked ==
    \A r \in diffResult :
        \A l \in EntriesOf(r.local), m \in EntriesOf(r.remote) :
            (/\ RenamedFrom(r, l, m)
             /\ HasName(l) /\ HasName(m)
             /\ Trim(CommentOf(l)) # Trim(CommentOf(m))
             /\ Trim(CommentOf(l)) \notin IdentitiesOf(r.remote)
             /\ Trim(CommentOf(m)) \notin IdentitiesOf(r.local))
            => /\ InSeq(Trim(CommentOf(l)), r.localOnly)
               /\ InSeq(Trim(CommentOf(m)), r.remoteOnly)
               /\ Trim(CommentOf(l)) \notin ModifiedIds(r)
               /\ Trim(CommentOf(m)) \notin ModifiedIds(r)

\* A compare ran on a local entry renamed to a name the remote does not have.
C15_Witness ==
    \E r \in diffResult :
        \E l \in EntriesOf(r.local), m \in EntriesOf(r.remote) :
            /\ RenamedFrom(r, l, m)
            /\ HasName(l) /\ HasName(m)
            /\ Trim(CommentOf(l)) # Trim(CommentOf(m))
            /\ Trim(CommentOf(l)) \notin IdentitiesOf(r.remote)
            /\ Trim(CommentOf(m)) \notin IdentitiesOf(r.local)

CompareSteps == {"compare_load", "compare_ok", "compare_err"}

\* C16: a step of compare, whatever the two stores hold and whether or not a
\* push is in flight, leaves index.yaml, the content files and the remote
\* collection as they were and sends no replace call.
C16_CompareReadOnly ==
    [][lastOp' \in CompareSteps =>
          /\ index' = index /\ files' = files /\ remote' = remote
          /\ flight' = flight /\ sent' = {}]_vars

\* A compare that found differences returned while a replace call was in
\* flight.
C16_Witness ==
    /\ lastOp = "compare_ok" /\ flight # {}
    /\ \E r \in diffResult : r.modified # <<>> /\ r.localOnly # <<>>

(***************************************************************************)
(* Properties of pushCharacter (checked under CharSpec)                    *)
(***************************************************************************)

CharEdits == {n \in 1..Len(creq) : creq[n].call = "characters_edit"}

\* C17: a pushCharacter fetches the remote record before any other call; if
\* the remote has no such character it makes no further call; and every
\* characters/edit body it sends carries avatar, chat and create_date as
\* they were fetched.
C17_PreservedFields ==
    /\ creq # <<>> => creq[1].call = "characters_get"
    /\ creq # <<>> /\ creq[1].result = {} => Len(creq) = 1
    /\ \A n \in CharEdits :
          /\ creq[1].result # {}
          /\ LET fetched == Val(creq[1].result)
                 body == creq[n].body
             IN  /\ {"avatar_url", "chat", "create_date"} \subseteq DOMAIN body
                 /\ body.avatar_url = fetched.avatar
                 /\ body.chat = fetched.chat
                 /\ body.create_date = fetched.create_date

(***************************************************************************)
(* Properties of the push payload (checked under Spec)                     *)
(***************************************************************************)

\* Index entry i is one the load keeps: it has a readable content file and
\* passes the schema.
LoadedAt(i) == ReadableAt(i) /\ InRange(ProbabilityAt(i))

\* Entry e is the entry of index position i: its fields are those of the
\* index entry and of its content file.
FromLocal(e, i) ==
    LET has(f, v) == f \in DOMAIN e /\ e[f] = v
    IN  /\ has("uid", i - 1)
        /\ has("content", Field(ContentAt(i), "content", ""))
        /\ has("key", Field(ContentAt(i), "key", <<>>))
        /\ has("probability", ProbabilityAt(i))
        /\ has("order", Field(index.entries[i], "order", DefaultOrder))
        /\ has("comment",
               IF Field(index.entries[i], "comment", <<>>) # <<>>
               THEN index.entries[i].comment ELSE index.entries[i].id)

\* C18: after a successful push the collection sent, which is the remote's
\* new state, has one entry per index entry the load keeps, with the fields
\* of the index and of the content file; an entry the remote had before and
\* the local book does not have is gone.
C18_LocalWins ==
    lastOp = "push_ok" =>
        /\ sent # {} /\ remote = Val(sent)
        /\ Len(remote.entries) = Cardinality({i \in IndexPositions : LoadedAt(i)})
        /\ \A k \in 1..Len(remote.entries) :
              \E i \in IndexPositions : LoadedAt(i) /\ FromLocal(remote.entries[k], i)
        /\ \A r \in prevRemote : \A n \in 1..Len(r.entries) :
              (\A i \in IndexPositions :
                  ~(LoadedAt(i) /\ FromLocal(r.entries[n], i)))
              => \A k \in 1..Len(remote.entries) :
                    remote.entries[k] # r.entries[n]

\* A push went through over a remote that held an entry the local book
\* lacks and an entry the local book has with another probability.
C18_Witness ==
    /\ lastOp = "push_ok"
    /\ \E r \in prevRemote :
          /\ \E n \in 1..Len(r.entries) :
                \A k \in 1..Len(remote.entries) :
                    remote.entries[k].content # r.entries[n].content
          /\ \E n \in 1..Len(r.entries), k \in 1..Len(remote.entries) :
                /\ remote.entries[k].content = r.entries[n].content
                /\ remote.entries[k].probability # r.entries[n].probability

(***************************************************************************)
(* Properties of the ids a pull assigns (checked under NamesSpec)          *)
(***************************************************************************)

\* The entries a pull of the remote writes, in the order it writes them.
PulledEntries == SortEntries(ValidatedEntries(remote.entries))
IdAt(i) == index.entries[i].id
Suffixed(name, c) == name \o <<"_">> \o NumStr(c)

\* C19: after a pull the ids of the index are pairwise distinct; the id of
\* an entry is its sanitized name if no earlier entry took it, and otherwise
\* that name with the first suffix _1, _2, ... no earlier entry took; and
\* the ids name different content files, each holding its entry's content.
C19_UniqueIds ==
    lastOp = "pull_ok" =>
        /\ Len(index.entries) = Len(PulledEntries)
        /\ \A i, j \in IndexPositions : i # j => IdAt(i) # IdAt(j)
        /\ \A i \in IndexPositions :
              LET name == safeName(PulledEntries[i])
                  earlier == {IdAt(j) : j \in 1..(i - 1)}
              IN  IF name \notin earlier THEN IdAt(i) = name
                  ELSE \E c \in 1..Len(index.entries) :
                          /\ IdAt(i) = Suffixed(name, c)
                          /\ \A d \in 1..c : (Suffixed(name, d) \in earlier) <=> d < c
        /\ \A i \in IndexPositions :
              /\ ReadableAt(i)
              /\ ContentAt(i).content = PulledEntries[i].content
        /\ \A i, j \in IndexPositions :
              i # j => findEntryFile(files, IdAt(i)) # findEntryFile(files, IdAt(j))

\* A pull gave an entry named a the suffix _2, because a and a_1 were taken.
C19_Witness ==
    /\ lastOp = "pull_ok"
    /\ \E i \in IndexPositions :
          /\ IdAt(i) = <<"a", "_", "2">>
          /\ CommentOf(PulledEntries[i]) = <<"a">>

(***************************************************************************)
(* Properties of generateEntries (checked under GenSpec)                   *)
(***************************************************************************)

IdCount(idx, id) == Cardinality({n \in 1..Len(idx) : idx[n].id = id})
DistinctIds(idx) == \A n, m \in 1..Len(idx) : n # m => idx[n].id # idx[m].id

\* Id collides with the book as it was: an index entry carries it.
Collides(before, id) == id \in Ids(before.index.entries)

\* C20: after generateEntries(prefix, count) on a book whose ids are
\* distinct, a prefix_i that an index entry already carried has no file
\* written or overwritten and no index entry appended; every other prefix_i
\* has its content file and one index entry; the entries the index had keep
\* their places; and the ids of the index are distinct.
C20_GenerateSkipsCollisions ==
    (lastOp = "generate" /\ DistinctIds(prevLocal.index.entries)) =>
        /\ SubSeq(index.entries, 1, Len(prevLocal.index.entries))
              = prevLocal.index.entries
        /\ \A i \in 1..call.count :
              LET id == call.prefix \o <<"_">> \o NumStr(i)
                  filePath == Path("", id, "yaml")
              IN  IF Collides(prevLocal, id)
                  THEN /\ IdCount(index.entries, id) = 1
                       /\ (filePath \in DOMAIN files)
                             = (filePath \in DOMAIN prevLocal.files)
                       /\ filePath \in DOMAIN files
                             => files[filePath] = prevLocal.files[filePath]
                  ELSE /\ IdCount(index.entries, id) = 1
                       /\ filePath \in DOMAIN files
        /\ DistinctIds(index.entries)

(***************************************************************************)
(* The watcher's states and its pending events (WatcherSpec,               *)
(* WatcherLiveSpec)                                                        *)
(***************************************************************************)

\* C21: between two handler runs the flags are Idle (false, false), Pushing
\* (true, false) or PushingWithQueued (true, true): pushQueue implies
\* isPushing.
C21_ThreeStates == pushQueue => isPushing

\* The watcher is PushingWithQueued, and was Idle after an earlier push.
C21_Witness == pushQueue /\ isPushing /\ pushCount >= 2 /\ evDuring >= 1

\* C22: when every invoked push settles, an event delivered while push
\* number n runs is followed by the invocation of a later push, unless the
\* process is interrupted first.  (An event delivered while no push runs
\* invokes one in its own handler.)
C22_NoLostChange ==
    \A n \in 0..MaxEvents :
        (evDuring >= 1 /\ pushCount = n)
            ~> (pushCount > n \/ proc = "exited")

\* Events arrived during two pushes in turn and each time a further push
\* followed; the second of these pushes had failed.
C22_Witness ==
    /\ lastStep = "settled_fail" /\ pushCount >= 3 /\ inflight = 1
    /\ proc = "watching"

(***************************************************************************)
(* compare right after a pull (checked under DiffSpec)                     *)
(***************************************************************************)

\* The compare ran on the local book a pull of its remote leaves.
JustPulled(r) ==
    /\ WorldInfoOk(r.remote)
    /\ r.remote.entries # <<>>
    /\ r.local = loadWorldBookFromLocal(saveWorldBookLocal(r.remote, EmptyDir))

\* C23: a compare of a remote whose entries are all valid with the local
\* book a pull of that remote wrote, nothing edited in between, returns
\* empty localOnly, remoteOnly and modified.
C23_PullThenCompare ==
    \A r \in diffResult :
        JustPulled(r)
        => r.localOnly = <<>> /\ r.remoteOnly = <<>> /\ r.modified = <<>>

(***************************************************************************)
(* Unreadable content files (checked under Spec)                           *)
(***************************************************************************)

\* Index entry i has a content file that does not parse.
UnreadableAt(i) ==
    /\ HasId(index.entries[i])
    /\ findEntryFile(files, index.entries[i].id) # {}
    /\ files[Val(findEntryFile(files, index.entries[i].id))] = {}

\* C24: a push of a local book in which some index entry's content file is
\* there and does not parse fails and sends no replace call.
C24_UnreadableIsFatal ==
    (/\ lastOp \in {"push_ok", "push_neterr", "push_invalid"}
     /\ \E i \in IndexPositions : UnreadableAt(i))
    => lastOp = "push_invalid" /\ sent = {}

(***************************************************************************)
(* pushCharacter and its linked world books (checked under CharSpec)       *)
(***************************************************************************)

BookEdits == {n \in 1..Len(creq) : creq[n].call = "worldinfo_edit"}

\* C25: a run of pushCharacter (first definition) that ends on the failed
\* validation of the character has sent no replace call, neither for the
\* character nor for a linked world book; a run that succeeds has sent one
\* replace call per linked book, all before the character's, whose link
\* names the first book.
C25_NoPartialWrite ==
    (creq # <<>> /\ creq[1].def = 1) =>
        /\ lastOp = "char_invalid" => BookEdits = {} /\ CharEdits = {}
        /\ lastOp = "char_ok" =>
              /\ CharEdits = {Len(creq)}
              /\ BookEdits = 2..(Len(creq) - 1)
              /\ Len(creq) = lchar.books + 2
              /\ \A n \in BookEdits : creq[n].name = BookNames[n - 1]
              /\ lchar.books > 0 =>
                    /\ "extensions" \in DOMAIN creq[Len(creq)].body
                    /\ creq[Len(creq)].body.extensions = BookNames[1]

(***************************************************************************)
(* The character round trip (checked under CardSpec)                       *)
(***************************************************************************)

\* C26: a pushCharacter that ran right after a pullCharacter, nothing
\* changed on either side in between, sends the description, scenario,
\* first_mes and alternate_greetings the remote held.
C26_CardRoundTrip ==
    (/\ lastOp = "char_ok"
     /\ creq[1].after = "charpull_ok")
    => LET held == Val(creq[1].result)
           body == creq[Len(creq)].body
       IN  /\ body.description = held.description
           /\ body.scenario = held.scenario
           /\ body.first_mes = held.first_mes
           /\ body.json_data.alternate_greetings = held.alternate_greetings

(***************************************************************************)
(* A stopped pull and the pull after it (checked under HaltSpec)           *)
(***************************************************************************)

\* What one uninterrupted pull makes of the local store the stopped pull
\* started from.
SinglePull == saveWorldBookLocal(remote, Val(halted))

Loaded == loadWorldBookFromLocal(Local).entries

\* C28: every entry loadWorldBookFromLocal returns has the zero-based
\* position of its index entry as uid, skipped positions counted; no two
\* have the same uid, which is their record key; and its comment is not
\* empty: the index comment when that is not empty, the index id otherwise.
C28_UidIsPosition ==
    /\ \A k \in 1..Len(Loaded) :
          LET e == Loaded[k]
              i == e.uid + 1
          IN  /\ i \in IndexPositions
              /\ ReadableAt(i)
              /\ e.content = Field(ContentAt(i), "content", "")
              /\ e.comment # <<>>
              /\ e.comment = IF Field(index.entries[i], "comment", <<>>) # <<>>
                             THEN index.entries[i].comment
                             ELSE index.entries[i].id
    /\ \A k, m \in 1..Len(Loaded) : k # m => Loaded[k].uid # Loaded[m].uid
    /\ lastOp = "push_ok" => Val(sent).entries = Loaded

\* A push sent a loaded book whose first index entry was skipped, so that
\* the uids start at 1, and whose entry takes its comment from the index id.
C28_Witness ==
    /\ lastOp = "push_ok"
    /\ Len(Loaded) >= 1
    /\ MissingAt(1)
    /\ \E k \in 1..Len(Loaded) :
          /\ Loaded[k].uid = 1
          /\ "comment" \notin DOMAIN index.entries[2]
          /\ Loaded[k].comment = index.entries[2].id

(***************************************************************************)
(* Content files in folders (checked under Spec)                           *)
(***************************************************************************)

\* The content files of id the entries subtree held before the last
\* operation, at any depth.
FilesOf(id) == {p \in DOMAIN prevLocal.files : p.stem = id}

\* C29: a pull writes the content of an entry whose id had a content file
\* somewhere in the entries subtree to a path that existed, and creates no
\* file for that id directly under entries/; and every file that was in a
\* subdirectory of entries/ before the pull is there after it.
C29_FoldersKept ==
    lastOp = "pull_ok" =>
        /\ \A i \in IndexPositions :
              FilesOf(IdAt(i)) # {} =>
                  /\ \E p \in FilesOf(IdAt(i)) :
                        /\ p \in DOMAIN files
                        /\ files[p] = {ContentFileOf(PulledEntries[i])}
                  /\ \A q \in TopLevel(files) :
                        q.stem = IdAt(i) => q \in DOMAIN prevLocal.files
        /\ \A p \in DOMAIN prevLocal.files : p.dir # "" => p \in DOMAIN files

\* A pull rewrote a content file that lay in a folder.
C29_Witness ==
    /\ lastOp = "pull_ok"
    /\ \E i \in IndexPositions : \E p \in FilesOf(IdAt(i)) :
          /\ p.dir # ""
          /\ files[p] # prevLocal.files[p]
          /\ \A q \in TopLevel(files) : q.stem # IdAt(i)

(***************************************************************************)
(* Equality of entries in compare (checked under NormSpec)                 *)
(***************************************************************************)

Bookkeeping ==
    {"uid", "displayIndex", "extensions", "addMemo", "characterFilter",
     "triggers", "rescan", "ignoreBudget", "matchCharacterDepthPrompt",
     "matchCharacterDescription", "matchCharacterPersonality",
     "matchCreatorNotes", "matchPersonaDescription", "matchScenario",
     "useGroupScoring", "vectorized"}
Timers == {"sticky", "cooldown", "delay", "role"}

\* Entry e has a value for f: f is there, is not null, and is not a timer
\* at 0.
HasValue(e, f) ==
    /\ f \in DOMAIN e
    /\ f \in NullableFields => e[f] # {}
    /\ f \in Timers => e[f] # {0}

\* l and m differ in a field that is no bookkeeping field.
Differ(l, m) ==
    \E f \in (DOMAIN l \cup DOMAIN m) \ Bookkeeping :
        IF HasValue(l, f) /\ HasValue(m, f) THEN l[f] # m[f]
        ELSE HasValue(l, f) # HasValue(m, f)

\* C30: compare reports two entries of the same identity as modified exactly
\* when they differ in a field that is not ignored, where a field that is
\* null or absent, and a sticky, cooldown, delay or role of 0, count as no
\* value.
C30_EqualityOfEntries ==
    \A r \in diffResult :
        \A l \in EntriesOf(r.local), m \in EntriesOf(r.remote) :
            (CommentOf(l) # <<>> /\ Trim(CommentOf(l)) = Trim(CommentOf(m)))
            => (Trim(CommentOf(l)) \in ModifiedIds(r) <=> Differ(l, m))

\* compare found equal two entries of which the remote one has a
\* displayIndex, no scanDepth and a sticky of 0, the local one a null sticky.
C30_Witness ==
    \E r \in diffResult :
        \E l \in EntriesOf(r.local), m \in EntriesOf(r.remote) :
            /\ Trim(CommentOf(l)) = Trim(CommentOf(m))
            /\ r.modified = <<>>
            /\ "displayIndex" \in DOMAIN m
            /\ "scanDepth" \notin DOMAIN m /\ l.scanDepth = {}
            /\ "sticky" \in DOMAIN m /\ m.sticky = {0} /\ l.sticky = {}

====
